---- MODULE Spec2Model ----
(***************************************************************************)
(* A model of the sui-frontend pages: the confirmation poll of the         *)
(* verifying execute page, the payload normalisation of the basic execute  *)
(* page, the status-style classifiers, the handleExecute handlers of both  *)
(* execute pages and the TransactionSigning component.                     *)
(*                                                                         *)
(* JavaScript strings are TLC strings: Len, \o and SubSeq act on them per  *)
(* character.  An optional value (undefined or a value) is a sequence of   *)
(* length 0 or 1.                                                          *)
(***************************************************************************)
EXTENDS Integers, Sequences, FiniteSets, TLC

VARIABLES
    \* waitForTransactionConfirmation (verifying page)
    pollPc,        \* "idle" | "call" | "lookup" | "delay" | "done"
    txDigest,      \* parameter txDigest
    maxRetries,    \* parameter maxRetries
    retryDelay,    \* parameter / local retryDelay, a rational [num, den] of ms
    attempt,       \* loop counter
    lookups,       \* number of verifyTransactionOnBlockchain calls that returned
    lastLookup,    \* result of the latest lookup (optional)
    delays,        \* the delays handed to setTimeout, in order
    pollResult,    \* the returned BlockchainTransactionStatus (optional)
    \* parseTransactionData (basic page)
    parseInput,    \* the argument
    parsed,        \* the value returned (optional: None before the call)
    \* ExecutePageContent (both execute pages)
    page,          \* "basic" (app/execute/page.tsx) | "verifying" (part_001) | "none"
    status,        \* useState status
    statusStyle,   \* what getStatusStyle() returned for status (optional)
    transactionData,    \* useState transactionData (optional: null before the load)
    isExecuting,        \* useState isExecuting
    result,             \* useState result (optional)
    showConnectModal,   \* useState showConnectModal
    verificationStatus, \* useState verificationStatus (verifying page)
    requestId,          \* window.__requestId (basic page, optional)
    loaded,             \* the load effect has run
    execPc,             \* handleExecute: "idle" | "wallet" | "poll" | "verify" | "notify"
    runAddress,         \* wallet.account?.address as the running handler sees it
    steps,              \* the steps the current handleExecute run has attempted
    posted,             \* messages the current run has posted to window.opener
    requests,           \* HTTP requests the current run has sent
    timers,             \* pending 3 s timers (status update / window.close)
    runs,               \* clicks on the execute / sign / cancel buttons so far
    caught,             \* what the catch block of the current run caught (optional)
    clickLimit,         \* the clicks on those buttons that are followed in this window
    manual,             \* handleManualVerification: clicks, requests in flight, messages
    \* TransactionSigning
    signingId,          \* the signingId prop (optional)
    signingRequest,     \* useState signingRequest (optional)
    error,              \* useState error
    isLoading,          \* useState isLoading
    loads,              \* loadSigningRequest calls in flight: the wallet each one sees
    cancelPc,           \* cancelTransaction calls awaiting their POST
    \* useWalletConnect inside WalletConnection
    walletName,         \* useWallet().name (optional)
    renders,            \* renders of the host so far: the identity of its onConnect
    effectDeps,         \* the dependencies the effect last ran with (optional)
    notifications,      \* the walletData of every onConnect call, each one a POST
    \* the environment
    walletConnected,    \* wallet.connected
    walletAddress,      \* wallet.account?.address (optional)
    opener,             \* window.opener exists
    windowClosed        \* window.close() has closed the page

pollVars == <<pollPc, txDigest, maxRetries, retryDelay, attempt, lookups,
              lastLookup, delays, pollResult>>

parseVars == <<parseInput, parsed>>

styleVars == <<page, status, statusStyle>>

execVars == <<transactionData, isExecuting, result, showConnectModal,
              verificationStatus, requestId, loaded, execPc, runAddress, steps,
              posted, requests, timers, runs, caught>>

signVars == <<signingId, signingRequest, error, isLoading, loads, cancelPc>>

envVars == <<walletConnected, walletAddress, opener, windowClosed>>

connectVars == <<walletName, renders, effectDeps, notifications>>

vars == <<pollVars, parseVars, styleVars, execVars, signVars, envVars, connectVars, clickLimit, manual>>

----------------------------------------------------------------------------
(* Optional values and strings *)

None == <<>>

Some(x) == <<x>>

IsSome(o) == Len(o) = 1

Get(o) == o[1]

\* String.prototype.includes
Includes(s, m) ==
    \E i \in 1..(Len(s) - Len(m) + 1) : SubSeq(s, i, i + Len(m) - 1) = m

\* String.prototype.startsWith
StartsWith(s, p) == Len(s) >= Len(p) /\ SubSeq(s, 1, Len(p)) = p

----------------------------------------------------------------------------
(* Bounds and program constants *)

\* maxRetries is drawn from 0..MaxRetriesBound and the default
MaxRetriesBound == 3

\* retryDelay is drawn from 1..MaxDelayBound and the default
MaxDelayBound == 2

DefaultMaxRetries == 10

DefaultRetryDelay == 2000

----------------------------------------------------------------------------
(* Delays: retryDelay *= 1.2 on rationals num/den, den a power of 5, kept   *)
(* in lowest terms.                                                         *)

Ms(n) == [num |-> n, den |-> 1]

\* a doubling backoff
BackoffDoubling(d) == [num |-> d.num * 2, den |-> d.den]

\* retryDelay *= 1.2
Backoff(d) ==
    IF d.num % 5 = 0 /\ d.den = 1
    THEN [num |-> (d.num \div 5) * 6, den |-> 1]
    ELSE [num |-> d.num * 6, den |-> d.den * 5]

\* a < b on delays
DelayLess(a, b) ==
    LET m == IF a.den > b.den THEN a.den ELSE b.den
    IN  a.num * (m \div a.den) < b.num * (m \div b.den)

----------------------------------------------------------------------------
(* verifyTransactionOnBlockchain *)

Digests == {"0xD1", "0xD2abcdef9"}

\* what suiClient.getTransactionBlock can do: resolve with a response or reject
RpcResponses ==
    [kind : {"ok"}, digest : Digests, status : {None, Some("success"), Some("failure")},
     error : {None, Some(""), Some("MoveAbort")}, gasUsed : {None, Some("{gas}")},
     isError : {TRUE}, message : {""}]

RpcRejections ==
    [kind : {"throw"}, digest : {"0xD1"}, status : {None}, error : {None},
     gasUsed : {None}, isError : BOOLEAN,
     message : {"Transaction not found", "fetch failed"}]

RpcOutcomes ==
    {r \in RpcResponses : r.status /= Some("success") \/ r.error = None}
        \cup RpcRejections

\* a || b on optional strings: the empty string and undefined are falsy
OrElse(o, dflt) == IF IsSome(o) /\ Get(o) /= "" THEN Get(o) ELSE dflt

\* a lookup that reports a network error as a transaction that failed on chain
verifyNetworkErrorAsFailed(digest, rpc) ==
    IF rpc.kind = "ok"
    THEN [exists |-> TRUE, success |-> rpc.status = Some("success"), digest |-> rpc.digest,
          gasUsed |-> rpc.gasUsed,
          error |-> IF rpc.status = Some("success") THEN None
                    ELSE Some(OrElse(rpc.error, "Transaction failed on blockchain"))]
    ELSE [exists |-> ~(rpc.isError /\ Includes(rpc.message, "not found")),
          success |-> FALSE, digest |-> digest, gasUsed |-> None,
          error |-> Some("Blockchain query failed")]

verifyTransactionOnBlockchain(digest, rpc) ==
    IF rpc.kind = "ok"
    THEN LET success == rpc.status = Some("success")
         IN  [exists |-> TRUE, success |-> success, digest |-> rpc.digest,
              gasUsed |-> rpc.gasUsed,
              error |-> IF success THEN None
                        ELSE Some(OrElse(rpc.error, "Transaction failed on blockchain"))]
    ELSE IF rpc.isError /\ Includes(rpc.message, "not found")
    THEN [exists |-> FALSE, success |-> FALSE, digest |-> digest, gasUsed |-> None,
          error |-> Some("Transaction not found on blockchain")]
    ELSE [exists |-> FALSE, success |-> FALSE, digest |-> digest, gasUsed |-> None,
          error |-> Some("Blockchain query failed: "
                         \o (IF rpc.isError THEN rpc.message ELSE "Unknown error"))]

----------------------------------------------------------------------------
(* waitForTransactionConfirmation *)

NotConfirmed(digest) ==
    [exists |-> FALSE, success |-> FALSE, digest |-> digest, gasUsed |-> None,
     error |-> Some("Transaction not confirmed after maximum retries")]

\* a loop that runs one attempt too many
LoopContinuesOffByOne(a, max) == a <= max + 1

\* the loop condition attempt <= maxRetries
LoopContinues(a, max) == a <= max

\* the guard of the delay, attempt < maxRetries
DelayGuard(a, max) == a < max

\* a lookup that is taken as found only when it also succeeded
FoundOnlyIfSuccess(res) == res.exists /\ res.success

\* if (result.exists)
Found(res) == res.exists

----------------------------------------------------------------------------
(* JavaScript values of the payload normalisation.  A number is            *)
(* mant * 10^exp; an array holds values; an object is its members in order *)
(* of appearance (a later member of the same key wins).                    *)

Str(s) == [t |-> "str", s |-> s]

Num(m, e) == [t |-> "num", mant |-> m, exp |-> e]

Bool(b) == [t |-> "bool", b |-> b]

Null == [t |-> "null"]

\* a Uint8Array
U8(bs) == [t |-> "u8", bytes |-> bs]

Arr(items) == [t |-> "arr", items |-> items]

Obj(members) == [t |-> "obj", members |-> members]

\* the Transaction that Transaction.from(arg) builds
Tx(arg) == [t |-> "tx", from |-> arg]

CharAt(s, i) == SubSeq(s, i, i)

DigitChars == "0123456789"

HexChars == "0123456789abcdefABCDEF"

Base64Chars == "ABCDEFGHIJKLMNOPQRSTUVWXYZabcdefghijklmnopqrstuvwxyz0123456789+/"

\* c is one of the characters of the string chars
IsCharOf(c, chars) == Len(c) = 1 /\ Includes(chars, c)

\* the position of c in chars, from 0
IndexIn(c, chars) == (CHOOSE i \in 1..Len(chars) : CharAt(chars, i) = c) - 1

\* every character of s is one of chars
AllCharsOf(s, chars) == \A i \in 1..Len(s) : IsCharOf(CharAt(s, i), chars)

----------------------------------------------------------------------------
(* JSON.parse, on texts without white space, escapes, signs and fractions  *)

Fail == [ok |-> FALSE, v |-> Null, next |-> 0]

Parsed(v, next) == [ok |-> TRUE, v |-> v, next |-> next]

\* the first position from i on that holds no digit
RECURSIVE ScanDigits(_, _)
ScanDigits(s, i) ==
    IF i <= Len(s) /\ IsCharOf(CharAt(s, i), DigitChars)
    THEN ScanDigits(s, i + 1)
    ELSE i

\* the value of the digits s[i..j-1]
RECURSIVE DigitsValue(_, _, _)
DigitsValue(s, i, j) ==
    IF j <= i THEN 0
    ELSE DigitsValue(s, i, j - 1) * 10 + IndexIn(CharAt(s, j - 1), DigitChars)

\* number: 0 | [1-9][0-9]*, then an optional exponent e[0-9]+
ParseNumber(s, i) ==
    LET intEnd == IF CharAt(s, i) = "0" THEN i + 1 ELSE ScanDigits(s, i)
        hasExp == /\ intEnd + 1 <= Len(s)
                  /\ CharAt(s, intEnd) \in {"e", "E"}
                  /\ IsCharOf(CharAt(s, intEnd + 1), DigitChars)
        expEnd == ScanDigits(s, intEnd + 1)
    IN  IF hasExp
        THEN Parsed(Num(DigitsValue(s, i, intEnd), DigitsValue(s, intEnd + 1, expEnd)), expEnd)
        ELSE Parsed(Num(DigitsValue(s, i, intEnd), 0), intEnd)

\* the position of the quote that closes the string opened before i, or 0
RECURSIVE ClosingQuote(_, _)
ClosingQuote(s, i) ==
    IF i > Len(s) \/ CharAt(s, i) = "\\" THEN 0
    ELSE IF CharAt(s, i) = "\"" THEN i
    ELSE ClosingQuote(s, i + 1)

ParseString(s, i) ==
    LET q == ClosingQuote(s, i + 1)
    IN  IF q = 0 THEN Fail ELSE Parsed(Str(SubSeq(s, i + 1, q - 1)), q + 1)

ParseLiteral(s, i, text, v) ==
    IF i + Len(text) - 1 <= Len(s) /\ SubSeq(s, i, i + Len(text) - 1) = text
    THEN Parsed(v, i + Len(text))
    ELSE Fail

RECURSIVE ParseValue(_, _), ParseElements(_, _, _), ParseMembers(_, _, _)
ParseValue(s, i) ==
    IF i > Len(s) THEN Fail
    ELSE LET c == CharAt(s, i)
         IN  IF c = "\"" THEN ParseString(s, i)
             ELSE IF IsCharOf(c, DigitChars) THEN ParseNumber(s, i)
             ELSE IF c = "t" THEN ParseLiteral(s, i, "true", Bool(TRUE))
             ELSE IF c = "f" THEN ParseLiteral(s, i, "false", Bool(FALSE))
             ELSE IF c = "n" THEN ParseLiteral(s, i, "null", Null)
             ELSE IF c = "[" THEN
                  IF i + 1 <= Len(s) /\ CharAt(s, i + 1) = "]"
                  THEN Parsed(Arr(<<>>), i + 2)
                  ELSE ParseElements(s, i + 1, <<>>)
             ELSE IF c = "{" THEN
                  IF i + 1 <= Len(s) /\ CharAt(s, i + 1) = "}"
                  THEN Parsed(Obj(<<>>), i + 2)
                  ELSE ParseMembers(s, i + 1, <<>>)
             ELSE Fail

\* the elements of an array from position i, after those of acc
ParseElements(s, i, acc) ==
    LET e == ParseValue(s, i)
    IN  IF ~e.ok \/ e.next > Len(s) THEN Fail
        ELSE IF CharAt(s, e.next) = "]" THEN Parsed(Arr(Append(acc, e.v)), e.next + 1)
        ELSE IF CharAt(s, e.next) = "," THEN ParseElements(s, e.next + 1, Append(acc, e.v))
        ELSE Fail

\* the members of an object from position i, after those of acc
ParseMembers(s, i, acc) ==
    LET k == IF i <= Len(s) /\ CharAt(s, i) = "\"" THEN ParseString(s, i) ELSE Fail
        e == IF k.ok /\ k.next <= Len(s) /\ CharAt(s, k.next) = ":"
             THEN ParseValue(s, k.next + 1)
             ELSE Fail
        m == Append(acc, [k |-> k.v.s, v |-> e.v])
    IN  IF ~e.ok \/ e.next > Len(s) THEN Fail
        ELSE IF CharAt(s, e.next) = "}" THEN Parsed(Obj(m), e.next + 1)
        ELSE IF CharAt(s, e.next) = "," THEN ParseMembers(s, e.next + 1, m)
        ELSE Fail

\* JSON.parse(s): the value, or None when it throws
JSONParse(s) ==
    LET r == ParseValue(s, 1)
    IN  IF r.ok /\ r.next = Len(s) + 1 THEN Some(r.v) ELSE None

----------------------------------------------------------------------------
(* base64ToUint8Array and hexToUint8Array *)

\* the 6-bit values of the characters of d, as one number
RECURSIVE SextetsValue(_, _)
SextetsValue(d, n) ==
    IF n = 0 THEN 0
    ELSE SextetsValue(d, n - 1) * 64 + IndexIn(CharAt(d, n), Base64Chars)

\* the bytes of the number v, most significant first, n of them
RECURSIVE BytesOf(_, _)
BytesOf(v, n) ==
    IF n = 0 THEN <<>> ELSE Append(BytesOf(v \div 256, n - 1), v % 256)

\* the bytes of base64 data without padding: 4 characters give 3 bytes, a rest
\* of 2 gives 1 byte, a rest of 3 gives 2 bytes (the spare bits are dropped)
RECURSIVE DecodeSextets(_)
DecodeSextets(d) ==
    IF Len(d) >= 4
    THEN BytesOf(SextetsValue(d, 4), 3) \o DecodeSextets(SubSeq(d, 5, Len(d)))
    ELSE IF Len(d) = 3 THEN BytesOf(SextetsValue(d, 3) \div 4, 2)
    ELSE IF Len(d) = 2 THEN BytesOf(SextetsValue(d, 2) \div 16, 1)
    ELSE <<>>

\* s without its one or two trailing "=", when its length is a multiple of 4
StripPadding(s) ==
    IF Len(s) % 4 = 0 /\ Len(s) >= 2 /\ SubSeq(s, Len(s) - 1, Len(s)) = "=="
    THEN SubSeq(s, 1, Len(s) - 2)
    ELSE IF Len(s) % 4 = 0 /\ Len(s) >= 1 /\ CharAt(s, Len(s)) = "="
    THEN SubSeq(s, 1, Len(s) - 1)
    ELSE s

\* atob(s) as bytes (the char codes of the binary string), or None when it throws
Atob(s) ==
    LET d == StripPadding(s)
    IN  IF Len(d) % 4 = 1 \/ ~AllCharsOf(d, Base64Chars) THEN None
        ELSE Some(DecodeSextets(d))

base64ToUint8Array(b64) == Atob(b64)

\* the value of a hexadecimal digit
HexDigitValue(c) ==
    LET i == IndexIn(c, HexChars) IN IF i >= 16 THEN i - 6 ELSE i

\* the byte stored for parseInt(pair, 16): the longest hexadecimal prefix, and 0
\* for NaN
ParseIntHexByte(pair) ==
    IF ~IsCharOf(CharAt(pair, 1), HexChars) THEN 0
    ELSE IF ~IsCharOf(CharAt(pair, 2), HexChars) THEN HexDigitValue(CharAt(pair, 1))
    ELSE HexDigitValue(CharAt(pair, 1)) * 16 + HexDigitValue(CharAt(pair, 2))

RECURSIVE HexPairs(_)
HexPairs(clean) ==
    IF Len(clean) < 2 THEN <<>>
    ELSE <<ParseIntHexByte(SubSeq(clean, 1, 2))>> \o HexPairs(SubSeq(clean, 3, Len(clean)))

hexToUint8Array(hex) ==
    LET clean == IF StartsWith(hex, "0x") THEN SubSeq(hex, 3, Len(hex)) ELSE hex
    IN  IF Len(clean) % 2 /= 0 THEN None ELSE Some(HexPairs(clean))

----------------------------------------------------------------------------
(* parseTransactionData.  sdk is the set of call sites at which            *)
(* Transaction.from accepts its argument; elsewhere it throws.             *)

SdkSites == {"bytes", "string", "serialized", "data"}

\* try { return Transaction.from(arg) } catch { return arg }
FromOrElse(arg, site, sdk) == IF site \in sdk THEN Tx(arg) ELSE arg

\* 10^e mod 256
RECURSIVE PowTenMod(_)
PowTenMod(e) == IF e = 0 THEN 1 ELSE (10 * PowTenMod(e - 1)) % 256

\* the element of a Uint8Array made from a number
ToUint8(n) == ((n.mant % 256) * PowTenMod(n.exp)) % 256

\* input.every((v) => typeof v === 'number')
EveryNumber(items) == \A i \in 1..Len(items) : items[i].t = "num"

\* new Uint8Array(items)
Uint8ArrayOf(items) == U8([i \in 1..Len(items) |-> ToUint8(items[i])])

\* obj[key]: the value of the last member of that key, or None (undefined)
Field(obj, key) ==
    IF obj.t /= "obj" THEN None
    ELSE LET at == {i \in 1..Len(obj.members) : obj.members[i].k = key}
         IN  IF at = {} THEN None
             ELSE Some(obj.members[CHOOSE i \in at : \A j \in at : j <= i].v)

IsString(o) == IsSome(o) /\ Get(o).t = "str"

\* /^[0-9a-fA-F]+$/.test(input) || input.startsWith('0x')
LooksHex(s) == (s /= "" /\ AllCharsOf(s, HexChars)) \/ StartsWith(s, "0x")

\* /^[A-Za-z0-9+/=]+$/.test(input) && input.length % 4 === 0
LooksBase64(s) == s /= "" /\ AllCharsOf(s, Base64Chars \o "=") /\ Len(s) % 4 = 0

\* the bytes field of an object
ParseBytesField(obj, sdk) ==
    LET bytes == Field(obj, "bytes")
    IN  IF ~IsSome(bytes) \/ Get(bytes) = Null THEN obj
        ELSE IF Get(bytes).t = "str"
        THEN LET asBase64 == base64ToUint8Array(Get(bytes).s)
                 asHex == hexToUint8Array(Get(bytes).s)
             IN  IF IsSome(asBase64) THEN FromOrElse(U8(Get(asBase64)), "bytes", sdk)
                 ELSE IF IsSome(asHex) THEN FromOrElse(U8(Get(asHex)), "bytes", sdk)
                 ELSE obj
        ELSE IF Get(bytes).t = "arr" /\ EveryNumber(Get(bytes).items)
        THEN FromOrElse(Uint8ArrayOf(Get(bytes).items), "bytes", sdk)
        ELSE IF Get(bytes).t = "u8" THEN FromOrElse(Get(bytes), "bytes", sdk)
        ELSE obj

\* the object branch
ParseObject(obj, sdk) ==
    IF IsString(Field(obj, "serialized")) /\ "serialized" \in sdk
    THEN Tx(Get(Field(obj, "serialized")))
    ELSE IF IsString(Field(obj, "data")) /\ "data" \in sdk
    THEN Tx(Get(Field(obj, "data")))
    ELSE ParseBytesField(obj, sdk)

\* the string branch once JSON.parse has thrown
ParseRawString(input, sdk) ==
    LET maybeHex == IF LooksHex(input.s) THEN hexToUint8Array(input.s) ELSE None
        asBytes == IF LooksBase64(input.s) THEN base64ToUint8Array(input.s) ELSE None
    IN  IF IsSome(maybeHex) THEN FromOrElse(U8(Get(maybeHex)), "bytes", sdk)
        ELSE IF IsSome(asBytes) THEN FromOrElse(U8(Get(asBytes)), "bytes", sdk)
        ELSE FromOrElse(input, "string", sdk)

RECURSIVE parseTransactionData(_, _)
parseTransactionData(input, sdk) ==
    IF input.t = "tx" THEN input
    ELSE IF input.t = "u8" THEN FromOrElse(input, "bytes", sdk)
    ELSE IF input.t = "arr" /\ EveryNumber(input.items)
    THEN FromOrElse(Uint8ArrayOf(input.items), "bytes", sdk)
    ELSE IF input.t = "str"
    THEN IF IsSome(JSONParse(input.s))
         THEN parseTransactionData(Get(JSONParse(input.s)), sdk)
         ELSE ParseRawString(input, sdk)
    ELSE IF input.t \in {"obj", "arr"} THEN ParseObject(input, sdk)
    ELSE Null

----------------------------------------------------------------------------
(* getStatusStyle of the two execute pages *)

GreenStyle == "bg-green-50 text-green-700 border-green-200"

RedStyle == "bg-red-50 text-red-700 border-red-200"

YellowStyle == "bg-yellow-50 text-yellow-700 border-yellow-200"

BlueStyle == "bg-blue-50 text-blue-700 border-blue-200"

\* app/execute/page.tsx
getStatusStyleBasic(st) ==
    IF Includes(st, "successful") \/ Includes(st, "loaded") THEN GreenStyle
    ELSE IF Includes(st, "Error") \/ Includes(st, "failed") THEN RedStyle
    ELSE BlueStyle

\* part_001
getStatusStyleVerifying(st) ==
    IF Includes(st, "confirmed") \/ Includes(st, "successful") \/ Includes(st, "loaded")
    THEN GreenStyle
    ELSE IF Includes(st, "failed") \/ Includes(st, "Error") \/ Includes(st, "error")
    THEN RedStyle
    ELSE IF Includes(st, "Executing") \/ Includes(st, "Preparing") \/ Includes(st, "Verifying")
    THEN YellowStyle
    ELSE BlueStyle

\* a classifier whose last branch returns the failure style
getStatusStyleRedDefault(pg, st) ==
    IF pg = "basic"
    THEN getStatusStyleBasic(st)
    ELSE IF getStatusStyleVerifying(st) = BlueStyle THEN RedStyle
         ELSE getStatusStyleVerifying(st)

getStatusStyle(pg, st) ==
    IF pg = "basic" THEN getStatusStyleBasic(st) ELSE getStatusStyleVerifying(st)

----------------------------------------------------------------------------
(* Values of the execute pages *)

\* s.substring(0, n)
Substring(s, n) == SubSeq(s, 1, IF n < Len(s) THEN n ELSE Len(s))

\* !v for an optional payload: null, the empty string, 0, false
Falsy(o) ==
    IF ~IsSome(o) THEN TRUE
    ELSE IF Get(o).t = "num" THEN Get(o).mant = 0
    ELSE Get(o) \in {Null, Str(""), Bool(FALSE)}

\* a thrown value: an Error with a message, or something else
ErrorOf(msg) == [isError |-> TRUE, message |-> msg]

NotAnError == [isError |-> FALSE, message |-> ""]

\* what Transaction.from(transactionData) can throw in the verifying page
DeserializationErrors == {ErrorOf("Unexpected end of input"), NotAnError}

\* throw new Error(`Failed to deserialize transaction: ${...}`)
DeserializationFailure(e) ==
    ErrorOf("Failed to deserialize transaction: "
            \o (IF e.isError THEN e.message ELSE "Unknown deserialization error"))

\* what wallet.signAndExecuteTransaction can reject with
WalletRejections ==
    {ErrorOf("User rejected the request"), ErrorOf("Insufficient gas balance"),
     ErrorOf("Invalid transaction input"), ErrorOf("Wallet is locked"),
     ErrorOf("Insufficient funds: User rejected"), NotAnError}

\* the effects of a wallet response: absent, or a status that is a string, an
\* object {status, error} or something else
WalletEffects ==
    {None}
        \cup {Some([kind |-> "string", status |-> Some(st), error |-> None]) :
                st \in {"success", "succeeded", "failure"}}
        \cup {Some([kind |-> "object", status |-> st, error |-> er]) :
                st \in {None, Some("success"), Some("failure")},
                er \in {None, Some("MoveAbort")}}
        \cup {Some([kind |-> "other", status |-> None, error |-> None])}

\* what wallet.signAndExecuteTransaction can resolve with
WalletResponses == [digest : {None} \cup {Some(d) : d \in Digests}, effects : WalletEffects]

\* reading .substring of an undefined digest
UndefinedSubstring == ErrorOf("Cannot read properties of undefined (reading 'substring')")

\* `${x}` of an optional string
Interpolate(o) == IF IsSome(o) THEN Get(o) ELSE "undefined"

\* a catch block that shows every message as it is
FriendlyMessageNoMapping(e) ==
    IF e.isError THEN e.message ELSE "Unknown error occurred"

\* the catch block of handleExecute in the verifying page: the message shown
FriendlyMessage(e) ==
    IF ~e.isError THEN "Unknown error occurred"
    ELSE IF Includes(e.message, "User rejected") THEN "Transaction was cancelled by user"
    ELSE IF Includes(e.message, "Insufficient") THEN "Insufficient balance for transaction"
    ELSE IF Includes(e.message, "Invalid transaction") THEN "Transaction format is invalid"
    ELSE e.message

\* the catch block of handleExecute in the basic page: the message shown
PlainMessage(e) == IF e.isError THEN e.message ELSE "Unknown error occurred"

\* a message for window.opener
Message(type, hash, err) == [type |-> type, transactionHash |-> hash, error |-> err]

\* a channel that delivers every message twice
PostTwiceIfOpener(log, hasOpener, m) ==
    IF hasOpener THEN Append(Append(log, m), m) ELSE log

\* window.opener.postMessage(m, '*') under if (window.opener)
PostIfOpener(log, hasOpener, m) == IF hasOpener THEN Append(log, m) ELSE log

\* an HTTP request: the endpoint and the error text its body carries, if any
Request(url, err) == [url |-> url, error |-> err]

\* the POST /tx-submitted of the basic page: requestId, txDigest, signer
TxSubmitted(reqId, digest, signer) ==
    [url |-> "/tx-submitted", error |-> None, requestId |-> reqId, txDigest |-> digest,
     signer |-> signer]

\* parseEffectsStatus of the basic page
parseEffectsStatus(effects) ==
    IF ~IsSome(effects) THEN [status |-> None, error |-> None]
    ELSE IF Get(effects).kind = "string"
    THEN [status |-> Get(effects).status, error |-> None]
    ELSE IF Get(effects).kind = "object"
    THEN [status |-> Get(effects).status, error |-> Get(effects).error]
    ELSE [status |-> None, error |-> None]

\* an outcome test that trusts only a success status
ExecSucceededStrict(execResult) ==
    parseEffectsStatus(execResult.effects).status = Some("success")

\* the outcome test of the basic page
ExecSucceeded(execResult) ==
    LET st == parseEffectsStatus(execResult.effects).status
    IN  \/ st = Some("success")
        \/ st = Some("succeeded")
        \/ st = None /\ IsSome(execResult.digest) /\ Get(execResult.digest) /= ""

\* decodeURIComponent on texts whose only percent signs are malformed escapes
DecodeURIComponent(s) == IF Includes(s, "%") THEN None ELSE Some(s)

\* the tx and requestId parameters of the URL
TxParams == {None, Some("deadbeef"), Some("10"), Some("%")}

RequestIdParams == {None, Some("req-1")}

\* responses of POST /verify-transaction: a failure (network error, timeout,
\* status not ok, body not JSON), or the JSON body
VerifyResponses ==
    [kind : {"throw"}, thrown : {ErrorOf("Server responded with 500: "), NotAnError},
     success : {FALSE}, verified : {FALSE}, binderId : {None}, binderIsString : {TRUE},
     message : {None}]
        \cup [kind : {"json"}, thrown : {NotAnError}, success : BOOLEAN, verified : BOOLEAN,
              binderId : {None, Some("binder-0123456789")}, binderIsString : BOOLEAN,
              message : {None, Some("queued")}]

\* calling .substring on a binderId that is no string
NotAFunction == ErrorOf("verifyData.binderId.substring is not a function")

\* verifyError instanceof Error ? verifyError.message : 'Unknown verification error'
VerificationErrorMessage(e) ==
    IF e.isError THEN e.message ELSE "Unknown verification error"

----------------------------------------------------------------------------
(* waitForTransactionConfirmation as a state machine *)

\* entering the function: the first evaluation of the loop condition
PollCall ==
    /\ pollPc = "call"
    /\ attempt' = 1
    /\ IF LoopContinues(1, maxRetries)
       THEN pollPc' = "lookup" /\ pollResult' = None
       ELSE pollPc' = "done" /\ pollResult' = Some(NotConfirmed(txDigest))
    /\ UNCHANGED <<txDigest, maxRetries, retryDelay, lookups, lastLookup, delays>>

\* the awaited lookup settles: return it, or wait, or leave the loop
PollAfterLookup(res) ==
    /\ lookups' = lookups + 1
    /\ lastLookup' = Some(res)
    /\ IF Found(res)
       THEN /\ pollPc' = "done"
            /\ pollResult' = Some(res)
            /\ UNCHANGED <<attempt, delays>>
       ELSE IF DelayGuard(attempt, maxRetries)
       THEN /\ pollPc' = "delay"
            /\ delays' = Append(delays, retryDelay)
            /\ UNCHANGED <<attempt, pollResult>>
       ELSE /\ attempt' = attempt + 1
            /\ UNCHANGED delays
            /\ IF LoopContinues(attempt + 1, maxRetries)
               THEN pollPc' = "lookup" /\ UNCHANGED pollResult
               ELSE pollPc' = "done" /\ pollResult' = Some(NotConfirmed(txDigest))
    /\ UNCHANGED <<txDigest, maxRetries, retryDelay>>

PollLookupFrom(outcomes) ==
    /\ pollPc = "lookup"
    /\ \E rpc \in outcomes :
          PollAfterLookup(verifyTransactionOnBlockchain(txDigest, rpc))

PollLookup == PollLookupFrom(RpcOutcomes)

\* the timer fires: retryDelay *= 1.2, attempt++, the loop condition again
PollDelay ==
    /\ pollPc = "delay"
    /\ retryDelay' = Backoff(retryDelay)
    /\ attempt' = attempt + 1
    /\ IF LoopContinues(attempt + 1, maxRetries)
       THEN pollPc' = "lookup" /\ UNCHANGED pollResult
       ELSE pollPc' = "done" /\ pollResult' = Some(NotConfirmed(txDigest))
    /\ UNCHANGED <<txDigest, maxRetries, lookups, lastLookup, delays>>

\* no poll is running
PollIdle ==
    /\ pollPc = "idle"
    /\ txDigest = ""
    /\ maxRetries = DefaultMaxRetries
    /\ retryDelay = Ms(DefaultRetryDelay)
    /\ attempt = 0
    /\ lookups = 0
    /\ lastLookup = None
    /\ delays = <<>>
    /\ pollResult = None

\* parseTransactionData is not under study
ParseIdle == parseInput = Null /\ parsed = None

\* no page is mounted
StyleIdle == page = "none" /\ status = "" /\ statusStyle = None

\* handleManualVerification has not been invoked
NoManual == [clicks |-> 0, pending |-> <<>>, posted |-> <<>>]

\* no handler of an execute page is under study
ExecIdle ==
    /\ transactionData = None
    /\ isExecuting = FALSE
    /\ result = None
    /\ showConnectModal = FALSE
    /\ verificationStatus = ""
    /\ requestId = None
    /\ loaded = FALSE
    /\ execPc = "idle"
    /\ runAddress = None
    /\ steps = <<>>
    /\ posted = <<>>
    /\ requests = <<>>
    /\ timers = 0
    /\ runs = 0
    /\ clickLimit = 0
    /\ manual = NoManual
    /\ caught = None
    /\ walletConnected = FALSE
    /\ walletAddress = None
    /\ opener = FALSE
    /\ windowClosed = FALSE

\* no host of useWalletConnect is mounted
ConnectIdle ==
    /\ walletName = None
    /\ renders = 0
    /\ effectDeps = None
    /\ notifications = <<>>

\* no TransactionSigning component is mounted
SignIdle ==
    /\ signingId = None
    /\ signingRequest = None
    /\ error = ""
    /\ isLoading = FALSE
    /\ loads = <<>>
    /\ cancelPc = 0

PollParams ==
    [max : (0..MaxRetriesBound) \cup {DefaultMaxRetries},
     delay : (1..MaxDelayBound) \cup {DefaultRetryDelay},
     digest : Digests]

PollInit ==
    \E p \in PollParams :
        /\ pollPc = "call"
        /\ txDigest = p.digest
        /\ maxRetries = p.max
        /\ retryDelay = Ms(p.delay)
        /\ attempt = 0
        /\ lookups = 0
        /\ lastLookup = None
        /\ delays = <<>>
        /\ pollResult = None
        /\ ParseIdle
        /\ StyleIdle
        /\ ExecIdle
    /\ SignIdle
    /\ ConnectIdle

PollNext ==
    \/ PollCall /\ UNCHANGED <<parseVars, connectVars, styleVars, execVars, signVars, envVars, clickLimit, manual>>
    \/ PollLookup /\ UNCHANGED <<parseVars, connectVars, styleVars, execVars, signVars, envVars, clickLimit, manual>>
    \/ PollDelay /\ UNCHANGED <<parseVars, connectVars, styleVars, execVars, signVars, envVars, clickLimit, manual>>

SpecPoll == PollInit /\ [][PollNext]_vars

\* every awaited lookup settles and every timer fires
SpecPollLive == PollInit /\ [][PollNext]_vars /\ WF_vars(PollNext)

----------------------------------------------------------------------------
(* The execute pages as a state machine *)

\* at most this many clicks on the execute button in one window
MaxRuns == 1

\* the execute button is rendered disabled
ExecuteNeverDisabled == FALSE

\* disabled={isExecuting}
ExecuteDisabled == isExecuting

\* the RPC outcomes a poll inside handleExecute meets
AppRpcOutcomes ==
    {r \in RpcOutcomes :
        /\ r.digest = "0xD1" /\ r.gasUsed = None /\ r.isError
        /\ r.kind = "ok" => r.status /= None /\ r.error /= Some("")}

\* what useWallet() can report
WalletStates ==
    {[connected |-> FALSE, address |-> None],
     [connected |-> TRUE, address |-> None],
     [connected |-> TRUE, address |-> Some("0xA11CE")]}

\* setStatus, and the style of the next render
SetStatus(st) ==
    /\ status' = st
    /\ statusStyle' = Some(getStatusStyle(page, st))

\* the log of the handleExecute run in progress
Step(name) == steps' = Append(steps, name)

\* a handler without its finally block
FinallyMissing == execPc' = "idle" /\ UNCHANGED isExecuting

\* finally { setIsExecuting(false) }
Finally == isExecuting' = FALSE /\ execPc' = "idle"

\* the mount effect of the verifying page
LoadVerifying(tx) ==
    /\ IF IsSome(tx) /\ Get(tx) /= ""
       THEN LET decoded == DecodeURIComponent(Get(tx))
            IN  IF IsSome(decoded)
                THEN /\ transactionData' = Some(Str(Get(decoded)))
                     /\ SetStatus("Transaction loaded. Connect wallet to execute.")
                ELSE /\ SetStatus("Error: Invalid transaction data format")
                     /\ UNCHANGED transactionData
       ELSE /\ SetStatus("Error: No transaction data provided in URL")
            /\ UNCHANGED transactionData
    /\ UNCHANGED requestId

\* the mount effect of the basic page
LoadBasic(tx, reqId) ==
    LET suffix == IF IsSome(reqId) /\ Get(reqId) /= ""
                  THEN " (requestId: " \o Get(reqId) \o ")" ELSE ""
    IN  /\ IF IsSome(tx) /\ Get(tx) /= ""
           THEN LET decoded == DecodeURIComponent(Get(tx))
                IN  IF IsSome(decoded)
                    THEN /\ transactionData' =
                                Some(IF IsSome(JSONParse(Get(decoded)))
                                     THEN Get(JSONParse(Get(decoded)))
                                     ELSE Str(Get(decoded)))
                         /\ SetStatus("Transaction loaded. Connect wallet to execute." \o suffix)
                    ELSE /\ SetStatus("Error: Invalid transaction data" \o suffix)
                         /\ UNCHANGED transactionData
           ELSE /\ SetStatus("Error: No transaction data provided" \o suffix)
                /\ UNCHANGED transactionData
        /\ requestId' = IF suffix /= "" THEN reqId ELSE requestId

LoadPayload ==
    /\ page \in {"basic", "verifying"}
    /\ ~loaded
    /\ loaded' = TRUE
    /\ \E tx \in TxParams, reqId \in RequestIdParams :
          IF page = "verifying" THEN reqId = None /\ LoadVerifying(tx) ELSE LoadBasic(tx, reqId)
    /\ UNCHANGED <<runs, caught, page, isExecuting, result, showConnectModal, verificationStatus,
                   execPc, runAddress, steps, posted, requests, timers>>
    /\ UNCHANGED <<pollVars, parseVars, connectVars, signVars, envVars>>
    /\ UNCHANGED <<clickLimit, manual>>

\* the wallet connects, disconnects or switches account (execute pages)
WalletChanges ==
    /\ page \in {"basic", "verifying"}
    /\ ~windowClosed
    /\ \E w \in WalletStates :
          /\ <<w.connected, w.address>> /= <<walletConnected, walletAddress>>
          /\ walletConnected' = w.connected
          /\ walletAddress' = w.address
    /\ UNCHANGED <<opener, windowClosed, pollVars, parseVars, connectVars, styleVars, execVars, signVars>>
    /\ UNCHANGED <<clickLimit, manual>>

\* guards that go on to the wallet call instead of returning
ExecGuardsFallingThrough ==
    /\ ~walletConnected \/ Falsy(transactionData)
    /\ SetStatus(IF ~walletConnected THEN "Please connect your wallet first"
                 ELSE "No transaction data available")
    /\ steps' = <<"wallet">>
    /\ caught' = None
    /\ isExecuting' = TRUE
    /\ execPc' = "wallet"
    /\ UNCHANGED <<runAddress, showConnectModal>>

\* the two guards at the top of handleExecute; TRUE when one of them returned
ExecGuards ==
    IF ~walletConnected
    THEN /\ SetStatus("Please connect your wallet first")
         /\ showConnectModal' = (page = "verifying" \/ showConnectModal)
         /\ steps' = <<>>
         /\ caught' = None
         /\ UNCHANGED <<isExecuting, execPc, runAddress>>
    ELSE /\ Falsy(transactionData)
         /\ SetStatus("No transaction data available")
         /\ steps' = <<>>
         /\ caught' = None
         /\ UNCHANGED <<isExecuting, execPc, runAddress, showConnectModal>>

\* a catch block that goes back to the wallet call
CatchVerifyingRetrying(e, log, attempted) ==
    /\ SetStatus("Executing transaction in wallet...")
    /\ posted' = log
    /\ caught' = Some(e)
    /\ steps' = Append(attempted, "wallet")
    /\ isExecuting' = TRUE
    /\ execPc' = "wallet"

\* the catch block of the verifying page, then finally; log and attempted are
\* the messages posted and the steps attempted so far in this run
CatchVerifying(e, log, attempted) ==
    /\ SetStatus("Execution failed: " \o FriendlyMessage(e))
    /\ posted' = PostIfOpener(log, opener,
                              Message("TRANSACTION_ERROR", None, Some(FriendlyMessage(e))))
    /\ caught' = Some(e)
    /\ steps' = attempted
    /\ Finally

\* the catch block of the basic page, then finally
CatchBasic(e) ==
    /\ SetStatus("Execution failed: " \o PlainMessage(e))
    /\ caught' = Some(e)
    /\ Finally

\* handleExecute of the verifying page is invoked, up to the first await.  The
\* button is disabled while isExecuting; the handler's own guards are kept
\* reachable by letting it be invoked whatever the wallet and the payload are
HandleExecuteVerifying ==
    /\ page = "verifying"
    /\ loaded /\ ~windowClosed
    /\ ~ExecuteDisabled
    /\ runs < clickLimit
    /\ runs' = runs + 1
    /\ requests' = <<>>
    /\ \/ ExecGuards /\ posted' = <<>>
       \/ /\ walletConnected /\ ~Falsy(transactionData)
          /\ UNCHANGED showConnectModal
          /\ runAddress' = walletAddress
          /\ \/ \E e \in DeserializationErrors :
                   CatchVerifying(DeserializationFailure(e), <<>>, <<"deserialize">>)
             \/ /\ steps' = <<"deserialize", "wallet">>
                /\ SetStatus("Executing transaction in wallet...")
                /\ posted' = <<>>
                /\ caught' = None
                /\ isExecuting' = TRUE
                /\ execPc' = "wallet"
    /\ UNCHANGED <<page, transactionData, result, verificationStatus, requestId, loaded, timers>>
    /\ UNCHANGED <<pollVars, parseVars, connectVars, signVars, envVars>>
    /\ UNCHANGED <<clickLimit, manual>>

\* entering waitForTransactionConfirmation(client, digest) with its defaults
EnterPoll(digest) ==
    /\ pollPc' = "call"
    /\ txDigest' = digest
    /\ maxRetries' = DefaultMaxRetries
    /\ retryDelay' = Ms(DefaultRetryDelay)
    /\ attempt' = 0
    /\ lookups' = 0
    /\ lastLookup' = None
    /\ delays' = <<>>
    /\ pollResult' = None

\* the wallet call of the verifying page settles
WalletSettlesVerifying ==
    /\ page = "verifying" /\ ~windowClosed
    /\ execPc = "wallet"
    /\ \/ \E e \in WalletRejections :
             /\ CatchVerifying(e, posted, steps)
             /\ UNCHANGED <<result, pollVars>>
       \/ \E r \in WalletResponses :
             /\ result' = Some([digest |-> r.digest, blockchainVerified |-> FALSE,
                                gasUsed |-> None])
             /\ IF IsSome(r.digest)
                THEN /\ SetStatus("Transaction submitted! Hash: "
                                  \o Substring(Get(r.digest), 8)
                                  \o "... Verifying on blockchain...")
                     /\ posted' = PostIfOpener(posted, opener,
                                     Message("TRANSACTION_SUBMITTED", r.digest, None))
                     /\ Step("poll")
                     /\ EnterPoll(Get(r.digest))
                     /\ execPc' = "poll"
                     /\ UNCHANGED <<isExecuting, caught>>
                ELSE /\ CatchVerifying(UndefinedSubstring, posted, steps)
                     /\ UNCHANGED pollVars
    /\ UNCHANGED <<runs, page, transactionData, showConnectModal, verificationStatus, requestId,
                   loaded, runAddress, requests, timers>>
    /\ UNCHANGED <<parseVars, connectVars, signVars, envVars>>
    /\ UNCHANGED <<clickLimit, manual>>

\* setTimeout(..., 3000), then finally
ArmTimerAndFinish == timers' = timers + 1 /\ Finally

\* a test that takes every transaction found on chain for a successful one
ConfirmedIfExists(bs) == bs.exists

\* if (blockchainStatus.exists && blockchainStatus.success)
Confirmed(bs) == bs.exists /\ bs.success

\* handleExecute of the verifying page after the poll returned blockchainStatus
AfterPoll(bs) ==
    IF Confirmed(bs)
    THEN /\ SetStatus("Transaction confirmed on blockchain! Gas used: "
                      \o (IF IsSome(bs.gasUsed) THEN "[object Object]" ELSE "Unknown"))
         /\ result' = Some([digest |-> Get(result).digest, blockchainVerified |-> TRUE,
                            gasUsed |-> bs.gasUsed])
         /\ posted' = PostIfOpener(posted, opener,
                                   Message("TRANSACTION_SUCCESS", Get(result).digest, None))
         /\ IF IsSome(runAddress) /\ Get(runAddress) /= ""
            THEN /\ verificationStatus' = "Verifying transaction on server..."
                 /\ requests' = Append(requests, Request("/verify-transaction", None))
                 /\ Step("verify")
                 /\ execPc' = "verify"
                 /\ UNCHANGED <<isExecuting, timers>>
            ELSE /\ ArmTimerAndFinish
                 /\ UNCHANGED <<verificationStatus, requests, steps>>
    ELSE IF bs.exists
    THEN /\ SetStatus("Transaction failed on blockchain: " \o Interpolate(bs.error))
         /\ posted' = PostIfOpener(posted, opener,
                                   Message("TRANSACTION_FAILED", Get(result).digest, bs.error))
         /\ Finally
         /\ UNCHANGED <<result, verificationStatus, requests, steps, timers>>
    ELSE /\ SetStatus("Transaction not confirmed on blockchain after retries")
         /\ posted' = PostIfOpener(posted, opener,
                        Message("TRANSACTION_NOT_FOUND", Get(result).digest,
                                Some("Transaction not found on blockchain")))
         /\ Finally
         /\ UNCHANGED <<result, verificationStatus, requests, steps, timers>>

\* one step of the poll inside handleExecute
PollStepVerifying ==
    /\ page = "verifying" /\ ~windowClosed
    /\ execPc = "poll"
    /\ PollCall \/ PollLookupFrom(AppRpcOutcomes) \/ PollDelay
    /\ UNCHANGED <<parseVars, connectVars, styleVars, execVars, signVars, envVars>>
    /\ UNCHANGED <<clickLimit, manual>>

\* the poll has returned: handleExecute resumes with blockchainStatus, and the
\* locals of the poll are gone
PollReturns ==
    /\ page = "verifying" /\ ~windowClosed
    /\ execPc = "poll"
    /\ pollPc = "done"
    /\ AfterPoll(Get(pollResult))
    /\ pollPc' = "idle"
    /\ txDigest' = ""
    /\ maxRetries' = DefaultMaxRetries
    /\ retryDelay' = Ms(DefaultRetryDelay)
    /\ attempt' = 0
    /\ lookups' = 0
    /\ lastLookup' = None
    /\ delays' = <<>>
    /\ pollResult' = None
    /\ UNCHANGED <<runs, caught, page, transactionData, showConnectModal, requestId, loaded,
                   runAddress>>
    /\ UNCHANGED <<parseVars, connectVars, signVars, envVars>>
    /\ UNCHANGED <<clickLimit, manual>>

\* the auto-verify request of the verifying page settles, then the timer is
\* armed and finally runs
VerifySettles ==
    /\ page = "verifying" /\ ~windowClosed
    /\ execPc = "verify"
    /\ \E v \in VerifyResponses :
          IF v.kind = "json" /\ v.success /\ v.verified /\ (v.binderIsString \/ ~IsSome(v.binderId))
          THEN /\ verificationStatus' =
                    "Binder verified! ID: "
                        \o (IF IsSome(v.binderId) THEN Substring(Get(v.binderId), 8)
                            ELSE "undefined")
                        \o "..."
               /\ posted' = PostIfOpener(posted, opener,
                                Message("VERIFICATION_SUCCESS", Get(result).digest, None))
          ELSE IF v.kind = "json" /\ ~(v.success /\ v.verified)
          THEN /\ verificationStatus' =
                    "Verification pending: " \o OrElse(v.message, "Please check manually")
               /\ posted' = PostIfOpener(posted, opener,
                                Message("VERIFICATION_PENDING", Get(result).digest, None))
          ELSE /\ verificationStatus' =
                    "Auto-verification failed - but transaction was successful"
               /\ posted' = PostIfOpener(posted, opener,
                                Message("VERIFICATION_FAILED", Get(result).digest,
                                        Some(VerificationErrorMessage(
                                                IF v.kind = "throw" THEN v.thrown
                                                ELSE NotAFunction))))
    /\ ArmTimerAndFinish
    /\ UNCHANGED <<runs, caught, page, status, statusStyle, transactionData, result, showConnectModal,
                   requestId, loaded, runAddress, steps, requests>>
    /\ UNCHANGED <<pollVars, parseVars, connectVars, signVars, envVars>>
    /\ UNCHANGED <<clickLimit, manual>>

\* without the i-th element
RemoveAt(q, i) == SubSeq(q, 1, i - 1) \o SubSeq(q, i + 1, Len(q))

\* !s of an optional string
NoString(o) == IF IsSome(o) THEN Get(o) = "" ELSE TRUE

\* at most this many clicks on Verify Manually
MaxManual == 1

\* a click on Verify Manually, up to the await of its fetch; the button is
\* rendered when result && result.blockchainVerified
handleManualVerification ==
    /\ page = "verifying"
    /\ loaded /\ ~windowClosed
    /\ IF IsSome(result) THEN Get(result).blockchainVerified ELSE FALSE
    /\ manual.clicks < MaxManual
    /\ IF NoString(Get(result).digest) \/ NoString(walletAddress)
       THEN /\ verificationStatus' = "No transaction to verify"
            /\ manual' = [manual EXCEPT !.clicks = @ + 1]
       ELSE /\ verificationStatus' = "Manually verifying transaction..."
            /\ manual' = [manual EXCEPT !.clicks = @ + 1,
                                        !.pending = Append(@, Get(Get(result).digest))]
    /\ UNCHANGED <<page, status, statusStyle, transactionData, isExecuting, result,
                   showConnectModal, requestId, loaded, execPc, runAddress, steps, posted,
                   requests, timers, runs, caught, clickLimit>>
    /\ UNCHANGED <<pollVars, parseVars, connectVars, signVars, envVars>>

\* a request of handleManualVerification settles
ManualVerifySettles ==
    /\ page = "verifying" /\ ~windowClosed
    /\ manual.pending /= <<>>
    /\ \E i \in DOMAIN manual.pending, v \in VerifyResponses :
          IF v.kind = "json" /\ v.success /\ v.verified /\ (v.binderIsString \/ ~IsSome(v.binderId))
          THEN /\ verificationStatus' =
                    "Manual verification successful! Binder ID: "
                        \o (IF IsSome(v.binderId) THEN Substring(Get(v.binderId), 8)
                            ELSE "undefined")
                        \o "..."
               /\ manual' = [manual EXCEPT
                                !.pending = RemoveAt(@, i),
                                !.posted = PostIfOpener(@, opener,
                                              Message("MANUAL_VERIFICATION_SUCCESS",
                                                      Some(manual.pending[i]), None))]
          ELSE IF v.kind = "json" /\ ~(v.success /\ v.verified)
          THEN /\ verificationStatus' =
                    "Manual verification failed: " \o OrElse(v.message, "Unknown error")
               /\ manual' = [manual EXCEPT !.pending = RemoveAt(@, i)]
          ELSE /\ verificationStatus' = "Manual verification failed"
               /\ manual' = [manual EXCEPT !.pending = RemoveAt(@, i)]
    /\ UNCHANGED <<page, status, statusStyle, transactionData, isExecuting, result,
                   showConnectModal, requestId, loaded, execPc, runAddress, steps, posted,
                   requests, timers, runs, caught, clickLimit>>
    /\ UNCHANGED <<pollVars, parseVars, connectVars, signVars, envVars>>

\* handleExecute of the basic page is invoked, up to the first await
HandleExecuteBasic ==
    /\ page = "basic"
    /\ loaded /\ ~windowClosed
    /\ ~ExecuteDisabled
    /\ runs < clickLimit
    /\ runs' = runs + 1
    /\ requests' = <<>>
    /\ posted' = <<>>
    /\ \/ ExecGuards
       \/ /\ walletConnected /\ ~Falsy(transactionData)
          /\ UNCHANGED showConnectModal
          /\ runAddress' = walletAddress
          /\ \E sdk \in SUBSET SdkSites :
                IF parseTransactionData(Get(transactionData), sdk) = Null
                THEN /\ steps' = <<"parse">>
                     /\ CatchBasic(ErrorOf("Unable to parse transaction payload"))
                ELSE /\ steps' = <<"parse", "wallet">>
                     /\ caught' = None
                     /\ SetStatus("Executing transaction...")
                     /\ isExecuting' = TRUE
                     /\ execPc' = "wallet"
    /\ UNCHANGED <<page, transactionData, result, verificationStatus, requestId, loaded, timers>>
    /\ UNCHANGED <<pollVars, parseVars, connectVars, signVars, envVars>>
    /\ UNCHANGED <<clickLimit, manual>>

\* the wallet call of the basic page settles
WalletSettlesBasic ==
    /\ page = "basic" /\ ~windowClosed
    /\ execPc = "wallet"
    /\ \/ \E e \in WalletRejections :
             /\ CatchBasic(e)
             /\ UNCHANGED <<result, steps, requests, timers>>
       \/ \E r \in WalletResponses :
             /\ result' = Some(r)
             /\ IF ExecSucceeded(r)
                THEN /\ SetStatus("Transaction successful! Digest: " \o Interpolate(r.digest))
                     /\ IF IsSome(requestId) /\ Get(requestId) /= ""
                        THEN /\ requests' = Append(requests,
                                                   TxSubmitted(Get(requestId), r.digest,
                                                               runAddress))
                             /\ Step("notify")
                             /\ execPc' = "notify"
                             /\ UNCHANGED <<isExecuting, timers, caught>>
                        ELSE /\ ArmTimerAndFinish
                             /\ UNCHANGED <<requests, steps, caught>>
                ELSE /\ SetStatus("Transaction failed: "
                                  \o (IF IsSome(parseEffectsStatus(r.effects).error)
                                      THEN Get(parseEffectsStatus(r.effects).error)
                                      ELSE "Unknown error"))
                     /\ Finally
                     /\ UNCHANGED <<requests, steps, timers, caught>>
    /\ UNCHANGED <<runs, page, transactionData, showConnectModal, verificationStatus, requestId,
                   loaded, runAddress, posted>>
    /\ UNCHANGED <<pollVars, parseVars, connectVars, signVars, envVars>>
    /\ UNCHANGED <<clickLimit, manual>>

\* a notification that is sent again when it settles
NotifySettlesRetrying ==
    /\ page = "basic" /\ ~windowClosed
    /\ execPc = "notify"
    /\ Len(requests) < 2
    /\ requests' = Append(requests, requests[Len(requests)])
    /\ UNCHANGED <<runs, caught, page, status, statusStyle, transactionData, result,
                   showConnectModal, verificationStatus, requestId, loaded, runAddress, steps,
                   posted, isExecuting, execPc, timers>>
    /\ UNCHANGED <<pollVars, parseVars, connectVars, signVars, envVars>>
    /\ UNCHANGED <<clickLimit, manual>>

\* the POST /tx-submitted of the basic page settles, either way
NotifySettles ==
    /\ page = "basic" /\ ~windowClosed
    /\ execPc = "notify"
    /\ ArmTimerAndFinish
    /\ UNCHANGED <<runs, caught, page, status, statusStyle, transactionData, result, showConnectModal,
                   verificationStatus, requestId, loaded, runAddress, steps, posted, requests>>
    /\ UNCHANGED <<pollVars, parseVars, connectVars, signVars, envVars>>
    /\ UNCHANGED <<clickLimit, manual>>

\* a 3 s timer fires: the closing status in the verifying page,
\* window.close() in the basic page (which closes a script-opened window)
TimerFires ==
    /\ page \in {"basic", "verifying"} /\ ~windowClosed
    /\ timers > 0
    /\ timers' = timers - 1
    /\ IF page = "verifying"
       THEN /\ SetStatus("Transaction completed successfully! You can close this window.")
            /\ UNCHANGED windowClosed
       ELSE /\ windowClosed' = opener
            /\ UNCHANGED <<status, statusStyle>>
    /\ UNCHANGED <<runs, caught, page, transactionData, isExecuting, result, showConnectModal,
                   verificationStatus, requestId, loaded, execPc, runAddress, steps, posted,
                   requests>>
    /\ UNCHANGED <<walletConnected, walletAddress, opener, pollVars, parseVars, connectVars, signVars>>
    /\ UNCHANGED <<clickLimit, manual>>

----------------------------------------------------------------------------
(* TransactionSigning as a state machine *)

\* at most this many loadSigningRequest calls in flight
MaxLoads == 2

\* at most this many clicks on Sign Transaction or Cancel
MaxClicks == 1

\* String(err) of a thrown value that is no Error
StringOf(e) == "[object Object]"

\* an error report that leaves the message out
ErrorMessageDropped(e) == ""

\* err instanceof Error ? err.message : String(err)
ErrorMessage(e) == IF e.isError THEN e.message ELSE StringOf(e)

\* s.slice(-n)
SliceEnd(s, n) == IF Len(s) <= n THEN s ELSE SubSeq(s, Len(s) - n + 1, Len(s))

\* GET /signing-request/:id settles: the fetch or json() rejects, or the body
SigningResponses ==
    {[kind |-> "throw", thrown |-> ErrorOf("Failed to fetch"), success |-> FALSE,
      error |-> None, walletAddress |-> ""],
     [kind |-> "json", thrown |-> NotAnError, success |-> FALSE,
      error |-> None, walletAddress |-> ""],
     [kind |-> "json", thrown |-> NotAnError, success |-> TRUE,
      error |-> None, walletAddress |-> "0xA11CE"]}

\* wallet.signTransaction settles: a rejection, or a response with or without
\* a signature
SignRejections == {ErrorOf("User rejected the request"), NotAnError}

\* the fields of the wallet's answer that signTransaction reads for the signature
SignedTransactions ==
    [signature : {None, Some(""), Some("sigA==")},
     txSignature : {None, Some(""), Some("sigB==")},
     signatures : {None, Some(<<>>), Some(<<"sigC==">>)}]

\* a ?? b
Coalesce(a, b) == IF IsSome(a) THEN a ELSE b

\* signatures?.[0]
FirstOf(signatures) ==
    IF IsSome(signatures)
    THEN (IF Len(Get(signatures)) > 0 THEN Some(Get(signatures)[1]) ELSE None)
    ELSE None

\* signedTx.signature ?? signedTx.txSignature ?? signedTx.signatures?.[0] ?? null
ExtractSignature(signed) ==
    Coalesce(signed.signature, Coalesce(signed.txSignature, FirstOf(signed.signatures)))

\* the body of the POST /submit-signature that carries a signature
SubmitSignature(id, signature) ==
    [url |-> "/submit-signature", error |-> None, signingId |-> id, signature |-> signature]

\* POST /submit-signature settles: a rejection, or the JSON body
SubmitResponses ==
    {[kind |-> "throw", thrown |-> ErrorOf("Failed to fetch"), success |-> FALSE,
      error |-> None],
     [kind |-> "json", thrown |-> NotAnError, success |-> TRUE, error |-> None],
     [kind |-> "json", thrown |-> NotAnError, success |-> FALSE,
      error |-> Some("Invalid signature")]}

\* the synchronous part of loadSigningRequest
StartLoad(connected, address) ==
    /\ status' = "loading"
    /\ loads' = Append(loads, [connected |-> connected, address |-> address])

\* the mount effect: if (signingId) loadSigningRequest()
MountSigning ==
    /\ page = "signing"
    /\ ~loaded /\ ~windowClosed
    /\ loaded' = TRUE
    /\ IF IsSome(signingId) /\ Get(signingId) /= ""
       THEN StartLoad(walletConnected, walletAddress)
       ELSE UNCHANGED <<status, loads>>
    /\ UNCHANGED <<page, statusStyle, transactionData, isExecuting, result, showConnectModal,
                   verificationStatus, requestId, execPc, runAddress, steps, posted,
                   requests, timers, runs, caught>>
    /\ UNCHANGED <<signingId, signingRequest, error, isLoading, cancelPc>>
    /\ UNCHANGED <<pollVars, parseVars, connectVars, envVars>>
    /\ UNCHANGED <<clickLimit, manual>>

\* the wallet changes: loadSigningRequest is rebuilt and the effect runs again
WalletChangesSigning ==
    /\ page = "signing"
    /\ loaded /\ ~windowClosed
    /\ Len(loads) < MaxLoads
    /\ \E w \in WalletStates :
          /\ <<w.connected, w.address>> /= <<walletConnected, walletAddress>>
          /\ walletConnected' = w.connected
          /\ walletAddress' = w.address
          /\ IF IsSome(signingId) /\ Get(signingId) /= ""
             THEN StartLoad(w.connected, w.address)
             ELSE UNCHANGED <<status, loads>>
    /\ UNCHANGED <<page, statusStyle, transactionData, isExecuting, result, showConnectModal,
                   verificationStatus, requestId, loaded, execPc, runAddress, steps, posted,
                   requests, timers, runs, caught>>
    /\ UNCHANGED <<signingId, signingRequest, error, isLoading, cancelPc>>
    /\ UNCHANGED <<opener, windowClosed, pollVars, parseVars, connectVars>>
    /\ UNCHANGED <<clickLimit, manual>>

\* one loadSigningRequest call resumes after its fetch
LoadSettles ==
    /\ page = "signing" /\ ~windowClosed
    /\ \E i \in DOMAIN loads, r \in SigningResponses :
          /\ loads' = RemoveAt(loads, i)
          /\ IF r.kind = "throw"
             THEN /\ error' = ErrorMessage(r.thrown)
                  /\ status' = "error"
                  /\ UNCHANGED signingRequest
             ELSE IF ~r.success
             THEN /\ error' = OrElse(r.error, "Failed to load signing request")
                  /\ status' = "error"
                  /\ UNCHANGED signingRequest
             ELSE /\ signingRequest' = Some(r.walletAddress)
                  /\ IF loads[i].connected /\ loads[i].address /= Some(r.walletAddress)
                     THEN /\ error' = "Wrong wallet connected. Expected: "
                                        \o Substring(r.walletAddress, 8) \o "..."
                                        \o SliceEnd(r.walletAddress, 6)
                          /\ status' = "error"
                     ELSE /\ status' = "ready"
                          /\ UNCHANGED error
    /\ UNCHANGED <<page, statusStyle, transactionData, isExecuting, result, showConnectModal,
                   verificationStatus, requestId, loaded, execPc, runAddress, steps, posted,
                   requests, timers, runs, caught>>
    /\ UNCHANGED <<signingId, isLoading, cancelPc>>
    /\ UNCHANGED <<pollVars, parseVars, connectVars, envVars>>
    /\ UNCHANGED <<clickLimit, manual>>

\* the catch block of signTransaction up to its await: the error is shown and
\* reported to the server
CatchSigning(e) ==
    /\ error' = "Signing failed: " \o ErrorMessage(e)
    /\ status' = "error"
    /\ caught' = Some(e)
    /\ requests' = Append(requests, Request("/submit-signature", Some(ErrorMessage(e))))
    /\ execPc' = "report"

\* the two buttons are rendered
ButtonsShown ==
    /\ IsSome(signingId) /\ Get(signingId) /= ""
    /\ status \notin {"loading", "error", "success", "cancelled"}

\* a click on Sign Transaction, up to the first await
signTransaction ==
    /\ page = "signing" /\ ~windowClosed
    /\ ButtonsShown
    /\ walletConnected /\ ~isLoading /\ status = "ready"
    /\ execPc = "idle"
    /\ runs < clickLimit
    /\ runs' = runs + 1
    /\ IF ~walletConnected \/ ~IsSome(signingRequest)
       THEN /\ error' = "Wallet not connected or no signing request"
            /\ UNCHANGED <<isLoading, status, execPc, steps>>
       ELSE /\ isLoading' = TRUE
            /\ status' = "signing"
            /\ error' = ""
            /\ steps' = <<"wallet">>
            /\ execPc' = "wallet"
    /\ caught' = None
    /\ UNCHANGED <<page, statusStyle, transactionData, isExecuting, result, showConnectModal,
                   verificationStatus, requestId, loaded, runAddress, posted, requests, timers>>
    /\ UNCHANGED <<signingId, signingRequest, loads, cancelPc>>
    /\ UNCHANGED <<pollVars, parseVars, connectVars, envVars>>
    /\ UNCHANGED <<clickLimit, manual>>

\* wallet.signTransaction resolved with this answer
SignWalletResolves(signed) ==
    IF ~NoString(ExtractSignature(signed))
    THEN /\ requests' = Append(requests,
                               SubmitSignature(OrElse(signingId, ""),
                                               Get(ExtractSignature(signed))))
         /\ Step("submit")
         /\ execPc' = "submit"
         /\ UNCHANGED <<error, status, caught>>
    ELSE /\ CatchSigning(ErrorOf("No signature found in wallet response"))
         /\ UNCHANGED steps

\* wallet.signTransaction settles
SignWalletSettles ==
    /\ page = "signing" /\ ~windowClosed
    /\ execPc = "wallet"
    /\ \/ \E e \in SignRejections : CatchSigning(e) /\ UNCHANGED steps
       \/ \E signed \in SignedTransactions : SignWalletResolves(signed)
    /\ UNCHANGED <<page, statusStyle, transactionData, isExecuting, result, showConnectModal,
                   verificationStatus, requestId, loaded, runAddress, posted, timers, runs>>
    /\ UNCHANGED <<signingId, signingRequest, isLoading, loads, cancelPc>>
    /\ UNCHANGED <<pollVars, parseVars, connectVars, envVars>>
    /\ UNCHANGED <<clickLimit, manual>>

\* the success branch of signTransaction: 'success', onComplete in 2 s, finally
SubmitSucceeded ==
    /\ status' = "success"
    /\ timers' = timers + 1
    /\ isLoading' = FALSE
    /\ execPc' = "idle"
    /\ UNCHANGED <<error, caught, requests>>

\* a submit step that takes every JSON body for a success
SubmitResolvesIgnoringSuccess(r) ==
    IF r.kind = "throw"
    THEN CatchSigning(r.thrown) /\ UNCHANGED <<isLoading, timers>>
    ELSE SubmitSucceeded

\* the POST of the signature settled with this outcome
SubmitResolves(r) ==
    IF r.kind = "throw"
    THEN CatchSigning(r.thrown) /\ UNCHANGED <<isLoading, timers>>
    ELSE IF r.success
    THEN SubmitSucceeded
    ELSE /\ CatchSigning(ErrorOf(OrElse(r.error, "Failed to submit signature")))
         /\ UNCHANGED <<isLoading, timers>>

\* the POST of the signature settles
SubmitSettles ==
    /\ page = "signing" /\ ~windowClosed
    /\ execPc = "submit"
    /\ \E r \in SubmitResponses : SubmitResolves(r)
    /\ UNCHANGED <<page, statusStyle, transactionData, isExecuting, result, showConnectModal,
                   verificationStatus, requestId, loaded, runAddress, steps, posted, runs>>
    /\ UNCHANGED <<signingId, signingRequest, loads, cancelPc>>
    /\ UNCHANGED <<pollVars, parseVars, connectVars, envVars>>
    /\ UNCHANGED <<clickLimit, manual>>

\* the error report settles, either way; then finally
ReportSettles ==
    /\ page = "signing" /\ ~windowClosed
    /\ execPc = "report"
    /\ isLoading' = FALSE
    /\ execPc' = "idle"
    /\ UNCHANGED <<page, status, statusStyle, transactionData, isExecuting, result,
                   showConnectModal, verificationStatus, requestId, loaded, runAddress, steps,
                   posted, requests, timers, runs, caught>>
    /\ UNCHANGED <<signingId, signingRequest, error, loads, cancelPc>>
    /\ UNCHANGED <<pollVars, parseVars, connectVars, envVars>>
    /\ UNCHANGED <<clickLimit, manual>>

\* a click on Cancel: the cancellation is POSTed as an error
cancelTransaction ==
    /\ page = "signing" /\ ~windowClosed
    /\ ButtonsShown
    /\ ~isLoading
    /\ runs < clickLimit
    /\ runs' = runs + 1
    /\ requests' = Append(requests,
                          Request("/submit-signature", Some("User cancelled transaction")))
    /\ cancelPc' = cancelPc + 1
    /\ UNCHANGED <<page, status, statusStyle, transactionData, isExecuting, result,
                   showConnectModal, verificationStatus, requestId, loaded, execPc, runAddress,
                   steps, posted, timers, caught>>
    /\ UNCHANGED <<signingId, signingRequest, error, isLoading, loads>>
    /\ UNCHANGED <<pollVars, parseVars, connectVars, envVars>>
    /\ UNCHANGED <<clickLimit, manual>>

\* a cancellation whose failed report is swallowed
CancelResolvesSilently(ok) ==
    IF ok
    THEN /\ status' = "cancelled"
         /\ timers' = timers + 1
         /\ UNCHANGED windowClosed
    ELSE UNCHANGED <<status, timers, windowClosed>>

\* cancelTransaction after its fetch: 'cancelled' and onComplete after 1 s when
\* it resolved, onComplete at once when it rejected
CancelResolves(ok) ==
    IF ok
    THEN /\ status' = "cancelled"
         /\ timers' = timers + 1
         /\ UNCHANGED windowClosed
    ELSE /\ windowClosed' = TRUE
         /\ UNCHANGED <<status, timers>>

\* the POST of a cancellation settles
CancelSettles ==
    /\ page = "signing" /\ ~windowClosed
    /\ cancelPc > 0
    /\ cancelPc' = cancelPc - 1
    /\ \E ok \in BOOLEAN : CancelResolves(ok)
    /\ UNCHANGED <<page, statusStyle, transactionData, isExecuting, result, showConnectModal,
                   verificationStatus, requestId, loaded, execPc, runAddress, steps, posted,
                   requests, runs, caught>>
    /\ UNCHANGED <<signingId, signingRequest, error, isLoading, loads>>
    /\ UNCHANGED <<walletConnected, walletAddress, opener, pollVars, parseVars, connectVars>>
    /\ UNCHANGED <<clickLimit, manual>>

\* a timer of the signing page fires: onComplete() closes the window or
\* navigates away
CompleteFires ==
    /\ page = "signing" /\ ~windowClosed
    /\ timers > 0
    /\ timers' = timers - 1
    /\ windowClosed' = TRUE
    /\ UNCHANGED <<page, status, statusStyle, transactionData, isExecuting, result,
                   showConnectModal, verificationStatus, requestId, loaded, execPc, runAddress,
                   steps, posted, requests, runs, caught>>
    /\ UNCHANGED <<walletConnected, walletAddress, opener, pollVars, parseVars, connectVars, signVars>>
    /\ UNCHANGED <<clickLimit, manual>>

\* a page mounts in a window that a script opened or that the user opened
Mounted ==
    /\ page \in {"basic", "verifying", "signing"}
    /\ status = IF page = "signing" THEN "loading" ELSE "Loading transaction data..."
    /\ statusStyle = IF page = "signing" THEN None ELSE Some(getStatusStyle(page, status))
    /\ transactionData = None
    /\ isExecuting = FALSE
    /\ result = None
    /\ showConnectModal = FALSE
    /\ verificationStatus = ""
    /\ requestId = None
    /\ loaded = FALSE
    /\ execPc = "idle"
    /\ runAddress = None
    /\ steps = <<>>
    /\ posted = <<>>
    /\ requests = <<>>
    /\ timers = 0
    /\ runs = 0
    /\ caught = None
    /\ manual = NoManual
    /\ signingId \in (IF page = "signing" THEN {None, Some("sig-1")} ELSE {None})
    /\ signingRequest = None
    /\ error = ""
    /\ isLoading = FALSE
    /\ loads = <<>>
    /\ cancelPc = 0
    /\ \E w \in WalletStates : walletConnected = w.connected /\ walletAddress = w.address
    /\ opener \in BOOLEAN
    /\ windowClosed = FALSE
    /\ PollIdle
    /\ ParseIdle
    /\ ConnectIdle

\* a mounted page and the clicks that are followed
Init ==
    /\ Mounted
    /\ clickLimit = IF page = "signing" THEN MaxClicks ELSE MaxRuns

\* an execute page on which one more click is followed
RerunInit ==
    /\ Mounted
    /\ page \in {"basic", "verifying"}
    /\ clickLimit = MaxRuns + 1

Next ==
    \/ LoadPayload
    \/ WalletChanges
    \/ HandleExecuteVerifying
    \/ WalletSettlesVerifying
    \/ PollStepVerifying
    \/ PollReturns
    \/ VerifySettles
    \/ HandleExecuteBasic
    \/ WalletSettlesBasic
    \/ NotifySettles
    \/ TimerFires
    \/ MountSigning
    \/ WalletChangesSigning
    \/ LoadSettles
    \/ signTransaction
    \/ SignWalletSettles
    \/ SubmitSettles
    \/ ReportSettles
    \/ cancelTransaction
    \/ CancelSettles
    \/ CompleteFires

Spec == Init /\ [][Next]_vars

\* an awaited call of handleExecute settles, or its poll takes a step
Settles ==
    \/ WalletSettlesVerifying
    \/ PollStepVerifying
    \/ PollReturns
    \/ VerifySettles
    \/ WalletSettlesBasic
    \/ NotifySettles

\* the execute pages alone
ExecInit == Init /\ page \in {"basic", "verifying"}

ExecNext ==
    \/ LoadPayload
    \/ WalletChanges
    \/ HandleExecuteVerifying
    \/ WalletSettlesVerifying
    \/ PollStepVerifying
    \/ PollReturns
    \/ VerifySettles
    \/ HandleExecuteBasic
    \/ WalletSettlesBasic
    \/ NotifySettles
    \/ TimerFires

\* the execute pages with one more click on the execute button
SpecRerun == RerunInit /\ [][ExecNext]_vars

\* the verifying page with its Verify Manually button
ManualInit == Init /\ page = "verifying"

ManualNext ==
    \/ LoadPayload
    \/ WalletChanges
    \/ HandleExecuteVerifying
    \/ WalletSettlesVerifying
    \/ PollStepVerifying
    \/ PollReturns
    \/ VerifySettles
    \/ TimerFires
    \/ handleManualVerification
    \/ ManualVerifySettles

SpecManual == ManualInit /\ [][ManualNext]_vars

\* every awaited external call eventually settles
SpecLive == ExecInit /\ [][ExecNext]_vars /\ WF_vars(Settles)

\* TransactionSigning alone
SignInit == Init /\ page = "signing"

SignNext ==
    \/ MountSigning
    \/ WalletChangesSigning
    \/ LoadSettles
    \/ signTransaction
    \/ SignWalletSettles
    \/ SubmitSettles
    \/ ReportSettles
    \/ cancelTransaction
    \/ CancelSettles
    \/ CompleteFires

\* the POST of a cancellation eventually settles, and each timer that
\* TransactionSigning set eventually fires
SignFairness ==
    /\ WF_vars(CancelSettles)
    /\ WF_vars(CompleteFires)

SpecSignLive == SignInit /\ [][SignNext]_vars /\ SignFairness

----------------------------------------------------------------------------
(* useWalletConnect inside WalletConnection as a state machine *)

\* at most this many renders of the host
MaxRenders == 3

\* what useWallet() can report to the hook: connected, account?.address, name
ConnectWalletStates ==
    [connected : BOOLEAN, address : {None, Some(""), Some("0xA11CE")},
     name : {None, Some(""), Some("Suiet")}]

\* a string that is defined and not empty
Truthy(o) == IsSome(o) /\ Get(o) /= ""

\* an effect that does not look at the name
ShouldNotifyWithoutName(connected, address, name) == connected /\ Truthy(address)

\* if (connected && account?.address && name)
ShouldNotify(connected, address, name) == connected /\ Truthy(address) /\ Truthy(name)

\* the dependency array [connected, account, name, onConnect]; the host passes
\* an inline function, so onConnect is a new function in every render
Deps(connected, address, name, render) ==
    [connected |-> connected, account |-> address, name |-> name, onConnect |-> render]

\* after the render numbered n: the effect runs when a dependency differs from
\* the last run's, and calls onConnect, which POSTs walletData
RunEffect(n, connected, address, name) ==
    IF effectDeps /= Some(Deps(connected, address, name, n))
    THEN /\ effectDeps' = Some(Deps(connected, address, name, n))
         /\ notifications' =
                IF ShouldNotify(connected, address, name)
                THEN Append(notifications,
                            [walletAddress |-> Get(address), walletName |-> Get(name)])
                ELSE notifications
    ELSE UNCHANGED <<effectDeps, notifications>>

\* the host mounts or renders again (its search params or another field of the
\* wallet context changed) while connected, account and name are what they were
HostRenders ==
    /\ page = "connect"
    /\ renders < MaxRenders
    /\ renders' = renders + 1
    /\ RunEffect(renders + 1, walletConnected, walletAddress, walletName)
    /\ UNCHANGED <<walletConnected, walletAddress, walletName, opener, windowClosed>>
    /\ UNCHANGED <<pollVars, parseVars, styleVars, execVars, signVars>>
    /\ UNCHANGED <<clickLimit, manual>>

\* the wallet SDK changes connected, account or name, and the host renders
WalletStateChanges ==
    /\ page = "connect"
    /\ renders > 0
    /\ renders < MaxRenders
    /\ renders' = renders + 1
    /\ \E w \in ConnectWalletStates :
          /\ <<w.connected, w.address, w.name>> /= <<walletConnected, walletAddress, walletName>>
          /\ walletConnected' = w.connected
          /\ walletAddress' = w.address
          /\ walletName' = w.name
          /\ RunEffect(renders + 1, w.connected, w.address, w.name)
    /\ UNCHANGED <<opener, windowClosed, pollVars, parseVars, styleVars, execVars, signVars>>
    /\ UNCHANGED <<clickLimit, manual>>

ConnectInit ==
    /\ page = "connect"
    /\ status = ""
    /\ statusStyle = None
    /\ transactionData = None
    /\ isExecuting = FALSE
    /\ result = None
    /\ showConnectModal = FALSE
    /\ verificationStatus = ""
    /\ requestId = None
    /\ loaded = FALSE
    /\ execPc = "idle"
    /\ runAddress = None
    /\ steps = <<>>
    /\ posted = <<>>
    /\ requests = <<>>
    /\ timers = 0
    /\ runs = 0
    /\ clickLimit = 0
    /\ manual = NoManual
    /\ caught = None
    /\ \E w \in ConnectWalletStates :
          walletConnected = w.connected /\ walletAddress = w.address /\ walletName = w.name
    /\ opener = FALSE
    /\ windowClosed = FALSE
    /\ renders = 0
    /\ effectDeps = None
    /\ notifications = <<>>
    /\ PollIdle
    /\ ParseIdle
    /\ SignIdle

ConnectNext == HostRenders \/ WalletStateChanges

SpecConnect == ConnectInit /\ [][ConnectNext]_vars

----------------------------------------------------------------------------
(* Properties of waitForTransactionConfirmation *)

NoLookupFound == ~IsSome(lastLookup) \/ ~Get(lastLookup).exists

C1_Exhausted ==
    /\ lookups = maxRetries
    /\ pollResult = Some([exists |-> FALSE, success |-> FALSE, digest |-> txDigest,
                          gasUsed |-> None,
                          error |-> Some("Transaction not confirmed after maximum retries")])

\* C1: with maxRetries >= 1 and every lookup reporting exists=false, the helper
\* never performs more than maxRetries lookups, it terminates, and when it has
\* terminated it has performed exactly maxRetries lookups and returns
\* exists=false, success=false, the input digest and the error
\* 'Transaction not confirmed after maximum retries'.
C1_TerminatesAfterMaxRetries ==
    /\ [](maxRetries >= 1 /\ NoLookupFound =>
            /\ lookups <= maxRetries
            /\ (pollPc = "done" => C1_Exhausted))
    /\ <>(pollPc = "done")

C1_Witness ==
    /\ pollPc = "done"
    /\ maxRetries = DefaultMaxRetries
    /\ NoLookupFound
    /\ lookups = 10
    /\ C1_Exhausted

\* C2: once a lookup reports exists=true (the k-th, the first to do so), the
\* helper has returned that lookup's result unchanged after exactly k = attempt
\* lookups, k <= maxRetries, with k - 1 delays before it, and nothing further
\* (no lookup, no delay) can happen.
C2_ReturnsFirstExisting ==
    IsSome(lastLookup) /\ Get(lastLookup).exists =>
        /\ pollPc = "done"
        /\ pollResult = lastLookup
        /\ lookups = attempt
        /\ lookups <= maxRetries
        /\ Len(delays) = lookups - 1
        /\ ~ENABLED PollNext

C2_Witness ==
    /\ pollPc = "done"
    /\ lookups = 3
    /\ maxRetries = DefaultMaxRetries
    /\ IsSome(pollResult)
    /\ Get(pollResult).exists
    /\ ~Get(pollResult).success
    /\ pollResult = lastLookup

RECURSIVE Gcd(_, _)
Gcd(a, b) == IF b = 0 THEN a ELSE Gcd(b, a % b)

\* d * 6/5 in lowest terms
TimesSixFifths(d) ==
    LET g == Gcd(d.num * 6, d.den * 5)
    IN  [num |-> (d.num * 6) \div g, den |-> (d.den * 5) \div g]

RECURSIVE ScaledDelay(_, _)
ScaledDelay(start, k) ==
    IF k = 0 THEN start ELSE TimesSixFifths(ScaledDelay(start, k - 1))

\* C3: the k-th delay is the starting delay multiplied by 1.2 exactly k-1 times,
\* the delays are strictly increasing, there is exactly one delay between two
\* consecutive attempts and none after the final attempt.
C3_DelaysGrowByFactor ==
    /\ \A k \in 1..Len(delays) : delays[k] = ScaledDelay(delays[1], k - 1)
    /\ \A k \in 1..Len(delays) :
          retryDelay = ScaledDelay(delays[k], Len(delays) - k + (IF pollPc = "delay" THEN 0 ELSE 1))
    /\ \A j, k \in 1..Len(delays) : j < k => DelayLess(delays[j], delays[k])
    /\ pollPc = "lookup" => Len(delays) = attempt - 1
    /\ pollPc = "delay" => Len(delays) = attempt
    /\ pollPc = "done" /\ lookups >= 1 => Len(delays) = lookups - 1
    /\ lookups = 0 => Len(delays) = 0

C3_Witness ==
    /\ pollPc = "done"
    /\ Len(delays) = 9
    /\ delays[1] = Ms(2000)
    /\ delays[2] = Ms(2400)
    /\ delays[5] = [num |-> 20736, den |-> 5]

----------------------------------------------------------------------------
(* parseTransactionData applied to one input *)

\* strings of at most MaxStrLen characters are enumerated over ParseAlphabet
MaxStrLen == 3

ParseAlphabet == {"0", "1", "e", "x", "Z", "=", "!", "\""}

RECURSIVE StringsUpTo(_)
StringsUpTo(n) ==
    IF n = 0 THEN {""}
    ELSE StringsUpTo(n - 1)
            \cup {s \o c : s \in {r \in StringsUpTo(n - 1) : Len(r) = n - 1}, c \in ParseAlphabet}

\* longer payload strings, as the URL can carry them
SampleStrings ==
    {"true", "false", "null", "hello!", "deadbeef", "0xdeadbeef", "q80=",
     "1234", "11e1", "0x1e", "0x12", "0xZ!", "ZZZ=", "Zg==", "Z===", "ZZZZ", "0011",
     "{\"bytes\":\"0x1e\"}", "{\"bytes\":\"1e\"}", "{\"bytes\":\"Zg==\"}",
     "{\"bytes\":\"!\"}", "{\"bytes\":[1,2]}", "{\"bytes\":7}", "{\"bytes\":null}",
     "{\"data\":\"tx\"}", "{\"serialized\":\"tx\"}",
     "{\"serialized\":\"tx\",\"data\":\"ty\",\"bytes\":\"1e\"}",
     "{\"other\":1}", "{}", "[1,2]", "[]", "[\"a\"]", "\"deadbeef\"", "\"true\""}

\* payloads that are not strings
SampleValues ==
    {Num(7, 0), Bool(TRUE), Null, U8(<<1, 2>>), Arr(<<Num(1, 0), Num(300, 0)>>),
     Tx(Str("tx")), Obj(<<[k |-> "bytes", v |-> U8(<<9>>)]>>),
     Obj(<<[k |-> "bytes", v |-> Bool(TRUE)]>>)}

ParseInputs ==
    {Str(s) : s \in StringsUpTo(MaxStrLen) \cup SampleStrings} \cup SampleValues

ParseInit ==
    /\ parseInput \in ParseInputs
    /\ parsed = None
    /\ PollIdle
    /\ StyleIdle
    /\ ExecIdle
    /\ SignIdle
    /\ ConnectIdle

\* the call, with Transaction.from accepting at the sites of sdk
ParseApply ==
    /\ parsed = None
    /\ \E sdk \in SUBSET SdkSites : parsed' = Some(parseTransactionData(parseInput, sdk))
    /\ UNCHANGED <<parseInput, connectVars, pollVars, styleVars, execVars, signVars, envVars>>
    /\ UNCHANGED <<clickLimit, manual>>

ParseNext == ParseApply

SpecParse == ParseInit /\ [][ParseNext]_vars

----------------------------------------------------------------------------
(* Properties of parseTransactionData *)

\* an optional 0x, then a non-empty even number of hexadecimal digits
ValidHex(s) ==
    LET clean == IF StartsWith(s, "0x") THEN SubSeq(s, 3, Len(s)) ELSE s
    IN  clean /= "" /\ Len(clean) % 2 = 0 /\ AllCharsOf(clean, HexChars)

\* groups of four base64 characters, the last one padded with at most two "="
ValidBase64(s) ==
    /\ s /= ""
    /\ Len(s) % 4 = 0
    /\ \E pad \in 0..2 :
          /\ AllCharsOf(SubSeq(s, 1, Len(s) - pad), Base64Chars)
          /\ \A i \in (Len(s) - pad + 1)..Len(s) : CharAt(s, i) = "="

\* a JSON text of an object with a bytes, data or serialized field
JsonWrapped(s) ==
    /\ IsSome(JSONParse(s))
    /\ Get(JSONParse(s)).t = "obj"
    /\ \E key \in {"bytes", "data", "serialized"} : IsSome(Field(Get(JSONParse(s)), key))

\* a JSON text of a number, a boolean or null
JsonPrimitive(s) ==
    IsSome(JSONParse(s)) /\ Get(JSONParse(s)).t \in {"num", "bool", "null"}

\* C4: for every valid hex string (with or without 0x, decimal digits only
\* included), every valid base64 string and every JSON text of an object with a
\* bytes, data or serialized field, parseTransactionData returns a non-null value.
C4_NonNullForValidInputs ==
    /\ IsSome(parsed)
    /\ parseInput.t = "str"
    /\ ValidHex(parseInput.s) \/ ValidBase64(parseInput.s) \/ JsonWrapped(parseInput.s)
    => Get(parsed) /= Null

\* an input of no recognised shape: a JSON text of a number, boolean or null; a
\* string that is no JSON text, no hex (valid or 0x-prefixed), no base64 and no
\* serialized transaction; an object without bytes, data and serialized
Unrecognized(v, out) ==
    \/ v.t = "str" /\ JsonPrimitive(v.s)
    \/ /\ v.t = "str"
       /\ ~IsSome(JSONParse(v.s))
       /\ ~ValidHex(v.s) /\ ~StartsWith(v.s, "0x") /\ ~ValidBase64(v.s)
       /\ out.t /= "tx"
    \/ /\ v.t = "obj"
       /\ \A key \in {"bytes", "data", "serialized"} : ~IsSome(Field(v, key))

\* C5: for every input of an unrecognised shape parseTransactionData returns the
\* original value unchanged.
C5_UnrecognizedPassedThrough ==
    IsSome(parsed) /\ Unrecognized(parseInput, Get(parsed)) => Get(parsed) = parseInput

----------------------------------------------------------------------------
(* getStatusStyle applied to one status *)

\* a status is made of at most MaxFragments fragments
MaxFragments == 2

StatusFragments ==
    {"confirmed", "successful", "loaded", "failed", "Error", "error",
     "Executing", "Preparing", "Verifying", "Transaction ", "!"}

RECURSIVE StatusesUpTo(_)
StatusesUpTo(n) ==
    IF n = 0 THEN {""}
    ELSE StatusesUpTo(n - 1) \cup {s \o f : s \in StatusesUpTo(n - 1), f \in StatusFragments}

\* statuses the pages set
PageStatuses ==
    {"Loading transaction data...", "Transaction loaded. Connect wallet to execute.",
     "Error: No transaction data provided in URL", "Please connect your wallet first",
     "No transaction data available", "Preparing transaction for execution...",
     "Executing transaction in wallet...", "Executing transaction...",
     "Transaction submitted! Hash: 0xD1... Verifying on blockchain...",
     "Transaction confirmed on blockchain! Gas used: Unknown",
     "Transaction completed successfully! You can close this window.",
     "Transaction failed on blockchain: MoveAbort",
     "Transaction not confirmed on blockchain after retries",
     "Transaction successful! Digest: 0xD1", "Transaction failed: Unknown error",
     "Execution failed: Transaction was cancelled by user"}

StyleInit ==
    /\ page \in {"basic", "verifying"}
    /\ status \in StatusesUpTo(MaxFragments) \cup PageStatuses
    /\ statusStyle = None
    /\ PollIdle
    /\ ParseIdle
    /\ ExecIdle
    /\ SignIdle
    /\ ConnectIdle

\* a render: className={... ${getStatusStyle()}}
StyleApply ==
    /\ statusStyle = None
    /\ statusStyle' = Some(getStatusStyle(page, status))
    /\ UNCHANGED <<page, status, pollVars, parseVars, connectVars, execVars, signVars, envVars>>
    /\ UNCHANGED <<clickLimit, manual>>

StyleNext == StyleApply

SpecStyle == StyleInit /\ [][StyleNext]_vars

----------------------------------------------------------------------------
(* Properties of getStatusStyle *)

SuccessMarkers(pg) ==
    IF pg = "basic" THEN {"successful", "loaded"} ELSE {"confirmed", "successful", "loaded"}

FailureMarkers(pg) ==
    IF pg = "basic" THEN {"Error", "failed"} ELSE {"failed", "Error", "error"}

ProgressMarkers == {"Executing", "Preparing", "Verifying"}

HasMarker(st, markers) == \E m \in markers : Includes(st, m)

StyledOnlyByMarker ==
    /\ statusStyle = Some(GreenStyle) => HasMarker(status, SuccessMarkers(page))
    /\ statusStyle = Some(RedStyle) => HasMarker(status, FailureMarkers(page))

NeitherMarker ==
    /\ IsSome(statusStyle)
    /\ ~HasMarker(status, SuccessMarkers(page))
    /\ ~HasMarker(status, FailureMarkers(page))

\* C6 as stated: the success style only with a success marker, the failure style
\* only with a failure or error marker, and one default neutral style for every
\* status with neither kind of marker, on both execute pages.
C6_OneDefaultStyle ==
    /\ StyledOnlyByMarker
    /\ NeitherMarker => statusStyle = Some(BlueStyle)

\* C6 as amended: the two "only when" parts hold on both pages; a status with
\* neither kind of marker gets the one default (blue) style on the basic page,
\* and on the verifying page the in-progress (yellow) style when it contains
\* Executing, Preparing or Verifying and the default (blue) style otherwise.
C6_StyleByMarker ==
    /\ StyledOnlyByMarker
    /\ NeitherMarker /\ page = "basic" => statusStyle = Some(BlueStyle)
    /\ NeitherMarker /\ page = "verifying" =>
          statusStyle = Some(IF HasMarker(status, ProgressMarkers)
                             THEN YellowStyle ELSE BlueStyle)

C6_Witness ==
    /\ page = "verifying"
    /\ status = "Executing transaction in wallet..."
    /\ statusStyle = Some(YellowStyle)

----------------------------------------------------------------------------
(* Properties of the execute pages and of TransactionSigning *)

ExecutePage == page \in {"basic", "verifying"}

NoDuplicates(q) == \A i, j \in DOMAIN q : i /= j => q[i] /= q[j]

IsPrefix(p, q) == Len(p) <= Len(q) /\ SubSeq(q, 1, Len(p)) = p

\* C7: within one handleExecute run no step is attempted twice (the wallet call
\* in particular), and the steps of a run only grow while the run is in
\* progress; a step is attempted again only after a new click
C7_NoRetryWithinRun ==
    [][ExecutePage =>
          /\ NoDuplicates(steps')
          /\ \/ steps' = steps
             \/ runs' = runs + 1
             \/ /\ execPc /= "idle"
                /\ Len(steps') = Len(steps) + 1
                /\ IsPrefix(steps, steps')]_vars

\* a run whose wallet call failed has ended without calling the wallet again
C7_Witness ==
    /\ ExecutePage
    /\ execPc = "idle"
    /\ IsSome(caught)
    /\ steps \in {<<"deserialize", "wallet">>, <<"parse", "wallet">>}

C8_Expected(e) ==
    CASE ~e.isError -> "Unknown error occurred"
      [] e.isError /\ Includes(e.message, "User rejected") ->
            "Transaction was cancelled by user"
      [] e.isError /\ ~Includes(e.message, "User rejected")
            /\ Includes(e.message, "Insufficient") ->
            "Insufficient balance for transaction"
      [] e.isError /\ ~Includes(e.message, "User rejected")
            /\ ~Includes(e.message, "Insufficient")
            /\ Includes(e.message, "Invalid transaction") ->
            "Transaction format is invalid"
      [] OTHER -> e.message

\* C8: when handleExecute of the verifying page catches a value, the status
\* becomes 'Execution failed: ' followed by the friendly message chosen by the
\* first matching substring (User rejected, Insufficient, Invalid transaction),
\* the original message otherwise, 'Unknown error occurred' for a non-Error;
\* the same message is reported to the opener
C8_CatchMessage ==
    [][(page = "verifying" /\ IsSome(caught') /\ (caught = None \/ runs' = runs + 1)) =>
          /\ status' = "Execution failed: " \o C8_Expected(Get(caught'))
          /\ opener =>
                /\ Len(posted') > 0
                /\ posted'[Len(posted')] =
                      Message("TRANSACTION_ERROR", None, Some(C8_Expected(Get(caught'))))]_vars

\* a message with two markers was caught: the first match decides
C8_Witness ==
    /\ page = "verifying"
    /\ caught = Some(ErrorOf("Insufficient funds: User rejected"))
    /\ status = "Execution failed: Transaction was cancelled by user"

CarriesError(r) == IsSome(r.error)

\* C9 as stated: no HTTP request ever carries an error
C9_NoErrorLeavesTheTab == \A i \in DOMAIN requests : ~CarriesError(requests[i])

\* C9: in the execute pages no HTTP request carries an error; in
\* TransactionSigning the requests that carry one go to /submit-signature: a
\* failed signTransaction sends the message it caught, cancelTransaction sends
\* 'User cancelled transaction'
C9_ErrorsLeaveOnlyFromSigning ==
    /\ ExecutePage => \A i \in DOMAIN requests : ~CarriesError(requests[i])
    /\ page = "signing" =>
          /\ \A i \in DOMAIN requests :
                CarriesError(requests[i]) => requests[i].url = "/submit-signature"
          /\ IsSome(caught) =>
                \E i \in DOMAIN requests :
                    requests[i].error =
                        Some(IF Get(caught).isError THEN Get(caught).message
                             ELSE "[object Object]")
          /\ cancelPc > 0 =>
                \E i \in DOMAIN requests :
                    requests[i].error = Some("User cancelled transaction")

\* a failed signTransaction has sent its error to the server
C9_Witness ==
    /\ page = "signing"
    /\ status = "error"
    /\ caught = Some(ErrorOf("No signature found in wallet response"))
    /\ \E i \in DOMAIN requests :
          requests[i] = Request("/submit-signature",
                                Some("No signature found in wallet response"))

Types(q) == [i \in DOMAIN q |-> q[i].type]

TransactionOutcomes == {"TRANSACTION_SUCCESS", "TRANSACTION_FAILED", "TRANSACTION_NOT_FOUND"}

VerificationOutcomes == {"VERIFICATION_SUCCESS", "VERIFICATION_PENDING", "VERIFICATION_FAILED"}

CompleteSequences ==
    {<<"TRANSACTION_ERROR">>}
        \cup {<<"TRANSACTION_SUBMITTED", t>> : t \in TransactionOutcomes}
        \cup {<<"TRANSACTION_SUBMITTED", "TRANSACTION_SUCCESS", v>> : v \in VerificationOutcomes}

\* C10: in the verifying page with an opener, the messages of one handleExecute
\* run are TRANSACTION_ERROR alone, or TRANSACTION_SUBMITTED then exactly one of
\* SUCCESS, FAILED, NOT_FOUND, then at most one VERIFICATION_* message and only
\* after SUCCESS
C10_MessageSequence ==
    (page = "verifying" /\ opener) =>
        /\ \E q \in CompleteSequences : IsPrefix(Types(posted), q)
        /\ (execPc = "idle" /\ steps /= <<>>) => Types(posted) \in CompleteSequences

\* a run that went all the way to the server verification
C10_Witness ==
    /\ page = "verifying"
    /\ opener
    /\ execPc = "idle"
    /\ Types(posted) = <<"TRANSACTION_SUBMITTED", "TRANSACTION_SUCCESS", "VERIFICATION_PENDING">>

\* C11: no operation writes state outside its own component's UI state; the
\* payload-loading effect in particular leaves the window's globals unchanged
C11_NoStateOutsideComponent == [][requestId' = requestId]_vars

\* C12: once mounted, useWalletConnect calls onConnect (one POST each) only in
\* a step that changes the connection flag, the account or the wallet name
C12_NotifiedOnlyOnChange ==
    [][(/\ IsSome(effectDeps)
        /\ walletConnected' = walletConnected
        /\ walletAddress' = walletAddress
        /\ walletName' = walletName) => notifications' = notifications]_vars

\* C13: every onConnect call happens while the wallet is connected with an
\* address and a name, and carries that address and that name
C13_NotifiedOnlyWhenComplete ==
    [][notifications' /= notifications =>
          /\ walletConnected'
          /\ Truthy(walletAddress')
          /\ Truthy(walletName')
          /\ notifications' =
                Append(notifications, [walletAddress |-> Get(walletAddress'),
                                       walletName |-> Get(walletName')])]_vars

\* onConnect has been called with the wallet now connected
C13_Witness ==
    /\ page = "connect"
    /\ Len(notifications) > 0
    /\ notifications[Len(notifications)] = [walletAddress |-> "0xA11CE", walletName |-> "Suiet"]
    /\ walletConnected

Notified == {i \in DOMAIN requests : requests[i].url = "/tx-submitted"}

\* C14: in the basic page a run POSTs /tx-submitted at most once, with the
\* requestId of the URL, the digest and the signer, exactly when the run was
\* classified successful and a requestId was supplied; while the POST is
\* pending and when it settles the status stays and nothing more is sent
C14_NotifiedOncePerSuccess ==
    /\ [](page = "basic" =>
            /\ Cardinality(Notified) <= 1
            /\ \A i \in Notified :
                  /\ StartsWith(status, "Transaction successful! Digest: ")
                  /\ Truthy(requestId)
                  /\ requests[i] = TxSubmitted(Get(requestId), Get(result).digest, runAddress)
            /\ (StartsWith(status, "Transaction successful! Digest: ") /\ Truthy(requestId))
                  => Notified /= {})
    /\ [][(page = "basic" /\ execPc = "notify") =>
             status' = status /\ requests' = requests]_vars

\* a successful run with a requestId has notified the server and is over
C14_Witness ==
    /\ page = "basic"
    /\ execPc = "idle"
    /\ requests = <<TxSubmitted("req-1", Some("0xD1"), Some("0xA11CE"))>>
    /\ timers = 1

\* C15: in the verifying page the POST /verify-transaction is issued only in
\* the step that resumes handleExecute with a poll result that exists and
\* succeeded, and only when the run's wallet has an account address; at most
\* once per run, and never in a run whose execution threw
C15_VerifyOnlyAfterConfirmation ==
    /\ [](page = "verifying" =>
            /\ Len(requests) <= 1
            /\ requests /= <<>> =>
                  /\ caught = None
                  /\ IsSome(result) /\ Get(result).blockchainVerified)
    /\ [][(page = "verifying" /\ Len(requests') > Len(requests)) =>
             /\ execPc = "poll" /\ pollPc = "done"
             /\ Get(pollResult).exists /\ Get(pollResult).success
             /\ Truthy(runAddress)
             /\ requests' = Append(requests, Request("/verify-transaction", None))]_vars

\* the verification request of a confirmed transaction is pending
C15_Witness ==
    /\ page = "verifying"
    /\ execPc = "verify"
    /\ requests = <<Request("/verify-transaction", None)>>
    /\ Get(result).blockchainVerified

\* the guards of handleExecute stop the run
GuardedClick ==
    /\ ExecutePage
    /\ runs' = runs + 1
    /\ ~walletConnected \/ transactionData = None

\* what a guarded click does apart from the connect modal
GuardedClickEffect ==
    /\ status' = IF ~walletConnected THEN "Please connect your wallet first"
                 ELSE "No transaction data available"
    /\ steps' = <<>>
    /\ execPc' = "idle"
    /\ isExecuting' = FALSE
    /\ UNCHANGED <<result, transactionData, verificationStatus, requestId, timers>>

\* C16 as stated: without a connected wallet or without a payload handleExecute
\* does not call the wallet, and only sets the status text
C16_GuardsOnlySetStatus ==
    [][GuardedClick => GuardedClickEffect /\ UNCHANGED showConnectModal]_vars

\* C16: without a connected wallet or without a payload handleExecute does not
\* call the wallet, leaves isExecuting false and result unchanged, and sets the
\* status text; the verifying page also opens the connect modal when the
\* wallet is not connected
C16_GuardsSetStatusAndModal ==
    [][GuardedClick =>
          /\ GuardedClickEffect
          /\ showConnectModal' =
                (showConnectModal \/ (page = "verifying" /\ ~walletConnected))]_vars

\* a click without a payload, and a click without a wallet in the verifying page
C16_Witness ==
    /\ ExecutePage
    /\ runs = 1
    /\ steps = <<>>
    /\ \/ status = "No transaction data available" /\ ~isExecuting
       \/ page = "verifying" /\ status = "Please connect your wallet first" /\ showConnectModal

\* C17: while the page lives, every handleExecute run that passed the guards
\* eventually ends with isExecuting false, provided every awaited call settles
C17_RunEventuallyEnds ==
    (ExecutePage /\ isExecuting) ~> (~isExecuting \/ windowClosed)

\* a run that went through the wallet call has ended
C17_Witness ==
    /\ ExecutePage
    /\ ~isExecuting /\ execPc = "idle"
    /\ Len(steps) >= 2
    /\ ~windowClosed

\* C18: verifyTransactionOnBlockchain turns every rejection of the RPC lookup,
\* 'not found' or not, into exists = false, success = false with the input
\* digest; a poll that receives such a result waits and goes on to the next
\* attempt, or returns not-confirmed after the last one
C18_LookupFailureContinues ==
    /\ [](\A d \in Digests, rpc \in RpcRejections :
            LET res == verifyTransactionOnBlockchain(d, rpc)
            IN  ~res.exists /\ ~res.success /\ res.digest = d /\ IsSome(res.error))
    /\ [][(pollPc = "lookup" /\ lookups' = lookups + 1 /\ ~Get(lastLookup').exists) =>
             /\ ~Get(lastLookup').success
             /\ Get(lastLookup').digest = txDigest
             /\ IF attempt < maxRetries
                THEN pollPc' = "delay" /\ pollResult' = None
                ELSE pollPc' = "done" /\ pollResult' = Some(NotConfirmed(txDigest))]_vars

\* a network error was met and the poll is waiting for its next attempt
C18_Witness ==
    /\ pollPc = "delay"
    /\ IsSome(lastLookup)
    /\ ~Get(lastLookup).exists
    /\ Get(lastLookup).error = Some("Blockchain query failed: fetch failed")

\* the wallet call of the basic page resolves in this step
BasicWalletResolves ==
    /\ page = "basic"
    /\ execPc = "wallet"
    /\ execPc' /= "wallet"
    /\ caught' = None

\* C19: in the basic page, when the wallet call resolves the status becomes
\* 'Transaction successful! ...' exactly when the extracted effects status is
\* 'success' or 'succeeded', or none can be extracted and the digest is not
\* empty; otherwise it becomes 'Transaction failed: ' with the effects error or
\* 'Unknown error', and neither a notification nor the auto-close is scheduled
C19_OutcomeClassification ==
    [][BasicWalletResolves =>
          LET r == Get(result')
              fx == parseEffectsStatus(r.effects)
          IN  IF \/ fx.status \in {Some("success"), Some("succeeded")}
                 \/ fx.status = None /\ Truthy(r.digest)
              THEN status' = "Transaction successful! Digest: " \o Interpolate(r.digest)
              ELSE /\ status' = "Transaction failed: "
                                  \o (IF IsSome(fx.error) THEN Get(fx.error) ELSE "Unknown error")
                   /\ requests' = requests
                   /\ timers' = timers
                   /\ execPc' = "idle"]_vars

\* a response without a usable effects status was classified by its digest
C19_Witness ==
    /\ page = "basic"
    /\ IsSome(result)
    /\ Get(result).digest = Some("0xD1")
    /\ parseEffectsStatus(Get(result).effects).status = None
    /\ status = "Transaction successful! Digest: 0xD1"

\* C20: once every loadSigningRequest call has completed, a connected wallet
\* whose address differs from the request's walletAddress never finds the
\* status 'ready' (the Sign action is not offered to it)
C20_WrongWalletNeverReady ==
    (/\ page = "signing"
     /\ loads = <<>>
     /\ IsSome(signingRequest)
     /\ walletConnected
     /\ walletAddress /= signingRequest) => status /= "ready"

\* the first of signature, txSignature, signatures[0] that is a non-empty string
FirstNonEmpty(signed) ==
    IF ~NoString(signed.signature) THEN signed.signature
    ELSE IF ~NoString(signed.txSignature) THEN signed.txSignature
    ELSE IF ~NoString(FirstOf(signed.signatures)) THEN FirstOf(signed.signatures)
    ELSE None

\* C21: when wallet.signTransaction resolves, an answer with no non-empty
\* signature field posts no signature and shows 'Signing failed: No signature
\* found in wallet response'; otherwise the first non-empty field among
\* signature, txSignature, signatures[0] is the signature that is POSTed
C21_FirstNonEmptySignatureIsUsed ==
    [][\A signed \in SignedTransactions :
          (page = "signing" /\ execPc = "wallet" /\ SignWalletResolves(signed)) =>
              IF IsSome(FirstNonEmpty(signed))
              THEN /\ Len(requests') = Len(requests) + 1
                   /\ requests'[Len(requests')] =
                          SubmitSignature(OrElse(signingId, ""), Get(FirstNonEmpty(signed)))
              ELSE /\ status' = "error"
                   /\ error' = "Signing failed: No signature found in wallet response"
                   /\ requests'[Len(requests')].error =
                          Some("No signature found in wallet response")]_vars

\* C22: when the POST of the signature settles with success=true the status
\* becomes 'success' and exactly one onComplete is scheduled, which is then
\* invoked; when it settles with success=false or fails, the status becomes
\* 'error' and the run schedules or invokes no onComplete
C22_CompleteOnlyAfterSuccess ==
    /\ [][\A r \in SubmitResponses :
             (page = "signing" /\ execPc = "submit" /\ SubmitResolves(r)) =>
                 IF r.kind = "json" /\ r.success
                 THEN /\ status' = "success"
                      /\ timers' = timers + 1
                      /\ execPc' = "idle"
                      /\ ~windowClosed'
                 ELSE /\ status' = "error"
                      /\ timers' = timers
                      /\ ~windowClosed']_vars
    /\ [][(page = "signing" /\ execPc = "report" /\ execPc' = "idle") =>
             (timers' = timers /\ ~windowClosed')]_vars
    /\ (page = "signing" /\ status = "success") ~> windowClosed

C22_Witness ==
    /\ page = "signing"
    /\ status = "success"
    /\ steps = <<"wallet", "submit">>
    /\ windowClosed

\* the object a payload denotes: the payload itself, or the JSON text's value
PayloadObject(v) ==
    IF v.t = "obj" THEN Some(v)
    ELSE IF v.t = "str"
    THEN (IF IsSome(JSONParse(v.s))
          THEN (IF Get(JSONParse(v.s)).t = "obj" THEN JSONParse(v.s) ELSE None)
          ELSE None)
    ELSE None

\* an object payload that reaches the bytes branch with a valid hex string
HexBytesPayload(v) ==
    IF IsSome(PayloadObject(v))
    THEN LET obj == Get(PayloadObject(v))
         IN  /\ ~IsSome(Field(obj, "serialized"))
             /\ ~IsSome(Field(obj, "data"))
             /\ IsString(Field(obj, "bytes"))
             /\ ValidHex(Get(Field(obj, "bytes")).s)
    ELSE FALSE

\* the bytes that the hex text of the bytes field denotes
HexBytesOf(v) == U8(Get(hexToUint8Array(Get(Field(Get(PayloadObject(v)), "bytes")).s)))

\* C23: for an object payload whose bytes field is a valid even-length hex
\* string (with or without 0x), the bytes returned, or handed to
\* Transaction.from, are the bytes the hex text denotes
C23_BytesFieldDecodedAsHex ==
    (IsSome(parsed) /\ HexBytesPayload(parseInput)) =>
        Get(parsed) \in {HexBytesOf(parseInput), Tx(HexBytesOf(parseInput))}

\* C24: on an execute page isExecuting is true for as long as a handleExecute
\* run awaits the wallet, the poll, the verification or the notification, and
\* every click that starts handleExecute finds no run in progress, so that two
\* wallet calls are never outstanding together
C24_OneRunAtATime ==
    /\ [](ExecutePage /\ execPc /= "idle" => isExecuting)
    /\ [][(ExecutePage /\ runs' = runs + 1) => (execPc = "idle" /\ ~isExecuting)]_vars

\* a run awaits the wallet while the button is rendered and a further click
\* would be followed
C24_Witness ==
    /\ ExecutePage
    /\ execPc = "wallet"
    /\ isExecuting
    /\ walletConnected
    /\ transactionData /= None
    /\ runs < clickLimit

\* a status of the verifying page that reports a failed or unconfirmed outcome
FailureStatus(st) ==
    \/ st = "Transaction not confirmed on blockchain after retries"
    \/ StartsWith(st, "Transaction failed on blockchain: ")
    \/ StartsWith(st, "Execution failed: ")

\* C25: in the verifying page a status that reports a failed or unconfirmed
\* outcome is never rendered with the success (green) style
C25_FailureNeverGreen ==
    (page = "verifying" /\ FailureStatus(status) /\ IsSome(statusStyle)) =>
        Get(statusStyle) /= GreenStyle

\* C26: in the verifying page a delayed status update that fires while a
\* handleExecute run is in progress leaves the status of that run as it is
C26_DelayedUpdateSparesRunningStatus ==
    [][(page = "verifying" /\ isExecuting /\ execPc /= "idle" /\ timers' < timers) =>
           status' = status]_vars

\* verification requests awaiting their response
OutstandingVerifications == (IF execPc = "verify" THEN 1 ELSE 0) + Len(manual.pending)

\* C27: in the verifying page at most one transaction-verification request is
\* outstanding at any time
C27_OneVerificationAtATime ==
    page = "verifying" => OutstandingVerifications <= 1

\* C28: in TransactionSigning, once the status is 'success' or 'cancelled' it
\* never changes again, no further loadSigningRequest call starts and no wallet
\* signing call or signature submission is made
C28_SuccessAndCancelledAreTerminal ==
    [][(page = "signing" /\ status \in {"success", "cancelled"}) =>
           /\ status' = status
           /\ Len(loads') <= Len(loads)
           /\ execPc' \notin {"wallet", "submit"}]_vars

\* C29: in TransactionSigning, whenever wallet.signTransaction is called the
\* connected wallet's address is the walletAddress of the loaded signing request
C29_SignsWithRequestedWallet ==
    [][(page = "signing" /\ execPc /= "wallet" /\ execPc' = "wallet") =>
           (walletConnected /\ IsSome(signingRequest) /\ walletAddress = signingRequest)]_vars

\* C30: when the report of a cancellation settles, either it resolved, the
\* status becomes 'cancelled' and one onComplete is scheduled, or it failed, the
\* status is left as it is and onComplete is invoked at once; the status becomes
\* 'cancelled' in no other step; and a cancellation awaiting its report leads to
\* the onComplete call
C30_CancelCompletesOnce ==
    /\ [][(page = "signing" /\ cancelPc' < cancelPc) =>
             \/ status' = "cancelled" /\ timers' = timers + 1 /\ ~windowClosed'
             \/ status' = status /\ timers' = timers /\ windowClosed']_vars
    /\ [][(page = "signing" /\ status /= "cancelled" /\ status' = "cancelled") =>
             cancelPc' < cancelPc]_vars
    /\ (page = "signing" /\ cancelPc > 0) ~> windowClosed

\* the report of a cancellation failed and onComplete has run, the status as
\* it was
C30_Witness ==
    /\ page = "signing"
    /\ runs = 1
    /\ requests /= <<>>
    /\ requests[Len(requests)].error = Some("User cancelled transaction")
    /\ cancelPc = 0
    /\ status = "ready"
    /\ timers = 0
    /\ windowClosed

====
